---- MODULE Spec2Model ----
(***************************************************************************)
(* Model of the NEMSIS dynamic ingester (src/main_ingest.py): one          *)
(* psycopg2 connection, the PostgreSQL catalog and rows it works on, the   *)
(* per-process schema cache and the per-file pipeline of                   *)
(* process_xml_file.  Identifiers are TLA+ strings; the database is a      *)
(* record [cols, rows, fks, audit]; db is the committed state and tx the   *)
(* state the connection's open transaction sees.                           *)
(***************************************************************************)
EXTENDS Integers, Sequences, FiniteSets, TLC

\* ------------------------------------------------------------------ bounds
MaxFiles == 2     \* files handed to main() in a behaviour, one process run each
MaxRepeats == 1   \* runs that are given the file of the run before them once more
MaxElems == 2     \* elements the parser returns for one file
MaxNameLen == 64  \* longest table name given to the FK planner (SpecFk)

\* ------------------------------------------------------- program constants
IdentMax == 63            \* the 63 of the FK planner
HashLen == 6              \* hexdigest()[:6]

Null == "NULL"            \* Python None, stored as SQL NULL

\* ------------------------------------------------------------------ strings
Upper == "ABCDEFGHIJKLMNOPQRSTUVWXYZ"
LowerAlpha == "abcdefghijklmnopqrstuvwxyz"
Digits == "0123456789"
HexDigits == "0123456789abcdef"
IdentChars == "abcdefghijklmnopqrstuvwxyz0123456789_"

Char(s, i) == SubSeq(s, i, i)

CharsOf(s) == {Char(s, i) : i \in 1..Len(s)}

IndexOf(c, alphabet) ==
    IF c \in CharsOf(alphabet)
    THEN CHOOSE i \in 1..Len(alphabet) : Char(alphabet, i) = c
    ELSE 0

UpperChars == CharsOf(Upper)

DigitChars == CharsOf(Digits)

LowerOf == [c \in UpperChars |-> Char(LowerAlpha, IndexOf(c, Upper))]

\* str.lower()
LowerChar(c) == IF c \in UpperChars THEN LowerOf[c] ELSE c

LowerByRule(s) ==
    LET RECURSIVE F(_, _)
        \* characters lo..hi, each converted; the range is halved
        F(lo, hi) == IF lo > hi THEN ""
                     ELSE IF lo = hi THEN LowerChar(Char(s, lo))
                     ELSE F(lo, (lo + hi) \div 2) \o F((lo + hi) \div 2 + 1, hi)
    IN F(1, Len(s))

\* The names the pipeline handles over and over; their conversions are tabulated
\* once (by the rules) instead of being recomputed in every state.
FrequentNames ==
    {"t", "u", "a", "A", "ctid", "schemaversions", "xmlfilesprocessed",
     "element_id", "parent_element_id", "pcr_uuid_context", "original_tag_name",
     "text_content"}

LowerTable == [n \in FrequentNames |-> LowerByRule(n)]

Lower(s) == IF s \in FrequentNames THEN LowerTable[s] ELSE LowerByRule(s)

\* ------------------------------------------------ xml_handler._sanitize_name
\* Trim.
Strip(s) ==
    LET RECURSIVE L(_)
        L(i) == IF i <= Len(s) /\ Char(s, i) = " " THEN L(i + 1) ELSE i
        RECURSIVE R(_)
        R(j) == IF j >= 1 /\ Char(s, j) = " " THEN R(j - 1) ELSE j
    IN IF L(1) > R(Len(s)) THEN "" ELSE SubSeq(s, L(1), R(Len(s)))

\* Replace any character not in [A-Za-z0-9_] with "_".
WordChars == UpperChars \cup CharsOf(LowerAlpha) \cup DigitChars \cup {"_"}

ReplaceNonWord(s) ==
    LET RECURSIVE F(_, _)
        F(lo, hi) == IF lo > hi THEN ""
                     ELSE IF lo = hi
                          THEN (IF Char(s, lo) \in WordChars THEN Char(s, lo) ELSE "_")
                     ELSE F(lo, (lo + hi) \div 2) \o F((lo + hi) \div 2 + 1, hi)
    IN F(1, Len(s))

\* Collapse runs of "_".
CollapseUnderscores(s) ==
    LET RECURSIVE F(_, _)
        \* a "_" that follows a "_" is dropped
        F(lo, hi) == IF lo > hi THEN ""
                     ELSE IF lo = hi
                          THEN (IF lo > 1 /\ Char(s, lo) = "_" /\ Char(s, lo - 1) = "_"
                                THEN "" ELSE Char(s, lo))
                     ELSE F(lo, (lo + hi) \div 2) \o F((lo + hi) \div 2 + 1, hi)
    IN F(1, Len(s))

\* If the first character is a digit, prefix "_".
PrefixDigit(s) ==
    IF Len(s) > 0 /\ Char(s, 1) \in DigitChars THEN "_" \o s ELSE s

SanitizeByRule(name) ==
    LowerByRule(PrefixDigit(CollapseUnderscores(ReplaceNonWord(Strip(name)))))

SanitizeTable == [n \in FrequentNames |-> SanitizeByRule(n)]

\* Mutant: a name with nothing left after the rules becomes "_".
sanitize_xml_name_never_empty(name) ==
    IF SanitizeByRule(name) = "" THEN "_" ELSE SanitizeByRule(name)

sanitize_xml_name(name) ==
    IF name \in FrequentNames THEN SanitizeTable[name] ELSE SanitizeByRule(name)

\* ---------------------------------------------------------------- database
common_db_columns ==
    {"element_id", "parent_element_id", "pcr_uuid_context",
     "original_tag_name", "text_content"}

\* Catalog names of the two audit tables (unquoted identifiers fold to lower case).
SchemaVersionsCols ==
    {"schemaversionid", "versionnumber", "creationdate", "updatedate",
     "description", "demographicgroup"}

XMLFilesProcessedCols ==
    {"processedfileid", "originalfilename", "md5hash", "processingtimestamp",
     "status", "schemaversionid", "demographicgroup"}

AuditTables == {"schemaversions", "xmlfilesprocessed"}

\* The database after database_setup.py: the audit tables and nothing else.
BootstrappedDb ==
    [cols  |-> ("schemaversions" :> SchemaVersionsCols)
               @@ ("xmlfilesprocessed" :> XMLFilesProcessedCols),
     rows  |-> {},
     fks   |-> {},
     audit |-> <<>>,
     schemas |-> {"public"}]

TablesOf(d) == DOMAIN d.cols

DynamicTables(d) == TablesOf(d) \ AuditTables

ColumnsOf(d, t) == IF t \in TablesOf(d) THEN d.cols[t] ELSE {}

Val(r, c) == IF c \in DOMAIN r.vals THEN r.vals[c] ELSE Null

RowsIn(d, t) == {r \in d.rows : r.tbl = t}

\* Column names PostgreSQL reserves in every table: CREATE TABLE and ADD COLUMN
\* with one of them fail ("conflicts with a system column name").
SystemColumns == {"tableoid", "xmin", "cmin", "xmax", "cmax", "ctid"}

Result(ok, d) == [ok |-> ok, db |-> d]

\* PostgreSQL cuts an identifier of a statement to 63 characters (the limit the
\* FK planner works to) and goes on with a notice.
PgIdent(name) == IF Len(name) <= IdentMax THEN name ELSE SubSeq(name, 1, IdentMax)

\* CREATE TABLE IF NOT EXISTS t_sql (cols_sql): cols_sql is the column list of
\* the statement; a name that comes twice in it is an error.
PgCreateTableIfNotExists(d, t_sql, cols_sql) ==
    LET t == PgIdent(t_sql)
        cols == {PgIdent(cols_sql[i]) : i \in DOMAIN cols_sql}
    IN IF t \in TablesOf(d) THEN Result(TRUE, d)
       ELSE IF \/ cols \cap SystemColumns # {}
               \/ t = ""
               \/ Cardinality(cols) # Len(cols_sql)
       THEN Result(FALSE, d)
       ELSE Result(TRUE, [d EXCEPT !.cols = (t :> cols) @@ @])

\* ALTER TABLE t_sql ADD COLUMN c_sql TEXT
PgAddColumn(d, t_sql, c_sql) ==
    LET t == PgIdent(t_sql)
        c == PgIdent(c_sql)
    IN IF t \notin TablesOf(d) \/ c \in ColumnsOf(d, t) \/ c \in SystemColumns \/ c = ""
       THEN Result(FALSE, d)
       ELSE Result(TRUE, [d EXCEPT !.cols[t] = @ \cup {c}])

\* A row of child table t satisfies foreign key k.
FkSatisfied(d, k, r) ==
    \/ Val(r, "parent_element_id") = Null
    \/ \E p \in RowsIn(d, k.parent) : Val(p, "element_id") = Val(r, "parent_element_id")

\* INSERT INTO t_sql (keys of vals_sql) VALUES (vals_sql)
PgInsert(d, t_sql, vals_sql, run) ==
    LET t == PgIdent(t_sql)
        keys == {PgIdent(k) : k \in DOMAIN vals_sql}
        vals == IF \A k \in DOMAIN vals_sql : Len(k) <= IdentMax THEN vals_sql
                ELSE [c \in keys |-> vals_sql[CHOOSE k \in DOMAIN vals_sql : PgIdent(k) = c]]
        r == [tbl  |-> t,
              vals |-> [c \in {k \in DOMAIN vals : vals[k] # Null} |-> vals[c]],
              run  |-> run] IN
    IF \/ t \notin TablesOf(d)
       \/ Cardinality(keys) # Cardinality(DOMAIN vals_sql)
       \/ ~(DOMAIN vals \subseteq ColumnsOf(d, t))
       \/ Val(r, "element_id") = Null
       \/ \E q \in RowsIn(d, t) : Val(q, "element_id") = Val(r, "element_id")
       \/ \E k \in d.fks : k.child = t /\ ~FkSatisfied(d, k, r)
    THEN Result(FALSE, d)
    ELSE Result(TRUE, [d EXCEPT !.rows = @ \cup {r}])

\* Rows removed with the rows of dead by ON DELETE CASCADE.
RECURSIVE CascadeClosure(_, _)
CascadeClosure(d, dead) ==
    LET more == {r \in d.rows \ dead :
                    \E k \in d.fks : /\ k.child = r.tbl
                                     /\ \E p \in dead :
                                           /\ p.tbl = k.parent
                                           /\ Val(p, "element_id") = Val(r, "parent_element_id")}
    IN IF more = {} THEN dead ELSE CascadeClosure(d, dead \cup more)

\* Mutant: the DELETE has no WHERE clause.
PgDelete_without_where(d, t_sql, u) ==
    [d EXCEPT !.rows = @ \ CascadeClosure(d, RowsIn(d, PgIdent(t_sql)))]

\* DELETE FROM t WHERE pcr_uuid_context = u
PgDelete(d, t_sql, u) ==
    LET t == PgIdent(t_sql)
        hit == {r \in RowsIn(d, t) : Val(r, "pcr_uuid_context") = u /\ u # Null}
    IN [d EXCEPT !.rows = @ \ CascadeClosure(d, hit)]

\* Names in information_schema.table_constraints for table t.
ConstraintNames(d, t) ==
    {k.name : k \in {f \in d.fks : f.child = t}}
        \cup (IF t \in TablesOf(d) THEN {t \o "_pkey"} ELSE {})

\* ALTER TABLE child ADD CONSTRAINT name FOREIGN KEY (parent_element_id)
\* REFERENCES parent (element_id) ON DELETE CASCADE
PgAddForeignKey(d, child_sql, parent_sql, name_sql) ==
    LET child == PgIdent(child_sql)
        parent == PgIdent(parent_sql)
        name == PgIdent(name_sql)
        k == [child |-> child, parent |-> parent, name |-> name] IN
    IF \/ child \notin TablesOf(d)
       \/ parent \notin TablesOf(d)
       \/ name \in ConstraintNames(d, child)
       \/ \E r \in RowsIn(d, child) : ~FkSatisfied(d, k, r)
    THEN Result(FALSE, d)
    ELSE Result(TRUE, [d EXCEPT !.fks = @ \cup {k}])

\* --------------------------------------------------------------- FK planner
\* hashlib.md5(s.encode()).hexdigest()[:6]: a deterministic digest of the whole
\* string, six hexadecimal digits long (a checksum of the length and of four
\* characters stands in for MD5).
HashValue(s) ==
    LET code(i) == IF i >= 1 /\ i <= Len(s) THEN IndexOf(Char(s, i), IdentChars) + 1 ELSE 0
    IN (Len(s) * 1000003 + code(4) * 50653 + code((Len(s) + 1) \div 2) * 1369
          + code(Len(s) - 1) * 37 + code(Len(s))) % 16777216

Md5Hex6(s) ==
    LET RECURSIVE X(_, _)
        X(n, k) == IF k = 0 THEN "" ELSE X(n \div 16, k - 1) \o Char(HexDigits, (n % 16) + 1)
    IN X(HashValue(s), HashLen)

\* Python s[:n]
Prefix(s, n) ==
    LET m == IF n >= 0 THEN n ELSE IF Len(s) + n < 0 THEN 0 ELSE Len(s) + n
    IN IF m >= Len(s) THEN s ELSE IF m = 0 THEN "" ELSE SubSeq(s, 1, m)

\* Mutant: a name that is too long is cut to 63 characters, without a hash.
fk_constraint_name_cut(child_table_raw, parent_table_raw_sanitized) ==
    Prefix("fk_" \o child_table_raw \o "_" \o parent_table_raw_sanitized, IdentMax)

\* Mutant: the planner always takes the ideal name.
fk_constraint_name_ideal(child_table_raw, parent_table_raw_sanitized) ==
    "fk_" \o child_table_raw \o "_" \o parent_table_raw_sanitized

fk_constraint_name(child_table_raw, parent_table_raw_sanitized) ==
    LET ideal_constraint_name == "fk_" \o child_table_raw \o "_" \o parent_table_raw_sanitized
        hash_suffix == Md5Hex6(ideal_constraint_name)
        prefix == "fk_"
        max_len_for_tables_part == IdentMax - Len(prefix) - Len(hash_suffix) - 1
        available_for_names_plus_underscore == max_len_for_tables_part
        available_for_child_and_parent_only == available_for_names_plus_underscore - 1
        too_long == (Len(child_table_raw) + 1 + Len(parent_table_raw_sanitized))
                        > available_for_names_plus_underscore
        max_len_child_part == available_for_child_and_parent_only \div 2
        child_cut == Len(child_table_raw) > max_len_child_part
        child_part1 == IF child_cut THEN Prefix(child_table_raw, max_len_child_part)
                       ELSE child_table_raw
        max_len_parent_part ==
            IF child_cut THEN available_for_child_and_parent_only - Len(child_part1)
            ELSE available_for_child_and_parent_only - max_len_child_part
        parent_part1 == IF Len(parent_table_raw_sanitized) > max_len_parent_part
                        THEN Prefix(parent_table_raw_sanitized, max_len_parent_part)
                        ELSE parent_table_raw_sanitized
        child_part2 ==
            IF (Len(child_part1) + 1 + Len(parent_part1)) > available_for_names_plus_underscore
            THEN Prefix(child_part1, available_for_child_and_parent_only - Len(parent_part1) - 1)
            ELSE child_part1
        child_part == IF too_long THEN child_part2 ELSE child_table_raw
        parent_part == IF too_long THEN parent_part1 ELSE parent_table_raw_sanitized
        hashed == prefix \o child_part \o "_" \o parent_part \o "_" \o hash_suffix
    IN IF Len(ideal_constraint_name) <= IdentMax THEN ideal_constraint_name
       ELSE Prefix(hashed, IdentMax)

\* ------------------------------------------------------------------- input
Range(f) == {f[i] : i \in DOMAIN f}

Truthy(x) == x # Null /\ x # ""

\* What the parser can report for one element: its table suggestion, its
\* attribute dictionary (in iteration order) and its PCR context.
ElementKinds ==
    { [table_suggestion |-> "t", attributes |-> <<>>,               pcr_uuid_context |-> "p1"],
      [table_suggestion |-> "t", attributes |-> <<<<"ctid", "7">>>>, pcr_uuid_context |-> "p1"],
      [table_suggestion |-> "t", attributes |-> <<>>,               pcr_uuid_context |-> Null],
      [table_suggestion |-> "u", attributes |-> <<>>,               pcr_uuid_context |-> "p1"],
      [table_suggestion |-> "u", attributes |-> <<<<"A", "1">>>>,    pcr_uuid_context |-> "p1"],
      [table_suggestion |-> "u", attributes |-> <<>>,               pcr_uuid_context |-> "p2"] }

\* A parsed document of n elements: element i has a kind and a parent among the
\* elements before it (0: none); named tells whether the parser also gave the
\* parent's table (parent_table_suggestion is nullable).
Shapes(n) ==
    {s \in [1..n -> [kind : ElementKinds, parent : 0..(n - 1), named : BOOLEAN]] :
        \A i \in 1..n : s[i].parent < i /\ (s[i].parent = 0 => s[i].named)}

NoFile == [cond |-> "none", shape |-> <<>>]

Files ==
    {[cond |-> "ok", shape |-> s] : s \in UNION {Shapes(n) : n \in 1..MaxElems}}
        \cup {[cond |-> c, shape |-> <<>>] : c \in {"unreadable", "missing", "empty"}}

\* element_id values are generated per parse and never repeat.
ElementId(run, i) == "e" \o Char(Digits, run + 1) \o Char(Digits, i + 1)

parse_xml_file(f, run) ==
    [i \in 1..Len(f.shape) |->
        LET k == f.shape[i].kind
            p == f.shape[i].parent
        IN [element_id              |-> ElementId(run, i),
            parent_element_id       |-> IF p = 0 THEN Null ELSE ElementId(run, p),
            pcr_uuid_context        |-> k.pcr_uuid_context,
            element_tag             |-> k.table_suggestion,
            table_suggestion        |-> k.table_suggestion,
            parent_table_suggestion |-> IF p = 0 \/ ~f.shape[i].named THEN Null
                                        ELSE f.shape[p].kind.table_suggestion,
            attributes              |-> k.attributes,
            text_content            |-> "x"]]

\* ------------------------------------------------------------- connection
\* c = [tx, cache, issued]: the transaction's view of the database, the
\* module-level _table_column_cache, and the statements sent so far for the file.
Say(c, stmt) == [c EXCEPT !.issued = Append(@, stmt)]

\* conn.rollback(): back to the committed state d0.
Rollback(c, d0) == [Say(c, "ROLLBACK") EXCEPT !.tx = d0]

get_table_columns(c, table_name) ==
    LET safe_table_name == sanitize_xml_name(table_name) IN
    IF safe_table_name \in DOMAIN c.cache
    THEN [cols |-> c.cache[safe_table_name], c |-> c]
    ELSE LET cols == ColumnsOf(c.tx, Lower(safe_table_name))
         IN [cols |-> cols, c |-> [c EXCEPT !.cache = (safe_table_name :> cols) @@ @]]

\* Orders in which a Python set can be iterated.
Orders(S) ==
    {o \in [1..Cardinality(S) -> S] : \A i, j \in DOMAIN o : i # j => o[i] # o[j]}

AttrColumns(element_attributes) ==
    {Lower(sanitize_xml_name(a[1])) : a \in Range(element_attributes)}

\* The ADD COLUMN loop over missing_attr_cols, in iteration order.
RECURSIVE AddColumns(_, _, _, _, _)
AddColumns(c, d0, table_name_raw, order, i) ==
    IF i > Len(order) THEN c
    ELSE LET r == PgAddColumn(c.tx, Lower(table_name_raw), order[i])
             c1 == IF r.ok
                   THEN [Say(c, "ALTER") EXCEPT !.tx = r.db,
                                               !.cache[table_name_raw] = @ \cup {order[i]}]
                   ELSE Rollback(Say(c, "ALTER_ERR"), d0)
         IN AddColumns(c1, d0, table_name_raw, order, i + 1)

NoTable == [table_name_raw |-> Null, columns |-> {}]

common_cols_sql ==
    <<"element_id", "parent_element_id", "pcr_uuid_context", "original_tag_name",
      "text_content">>

\* attr_cols_for_create as list(set(...)) hands it on: one entry per sanitized
\* attribute name that is not a common column, each name once, in some order.
attr_cols_for_create(element_attributes) ==
    CHOOSE o \in Orders(AttrColumns(element_attributes) \ Range(common_cols_sql)) : TRUE

\* One entry per attribute, in the order of the attributes.
RECURSIVE AttrColumnList(_, _)
AttrColumnList(element_attributes, i) ==
    IF i > Len(element_attributes) THEN <<>>
    ELSE <<Lower(sanitize_xml_name(element_attributes[i][1]))>>
            \o AttrColumnList(element_attributes, i + 1)

\* Mutant: the CREATE TABLE column list loses text_content.
final_cols_for_create_without_text(element_attributes) ==
    SubSeq(common_cols_sql, 1, 4) \o attr_cols_for_create(element_attributes)

\* Mutant: the column list has one entry per attribute, whatever its sanitized
\* name.
final_cols_for_create_per_attribute(element_attributes) ==
    common_cols_sql \o AttrColumnList(element_attributes, 1)

\* final_cols_for_create: the five common columns, then the attribute columns.
final_cols_for_create(element_attributes) ==
    common_cols_sql \o attr_cols_for_create(element_attributes)

\* created_cols: the names of final_cols_for_create, as they go to the cache.
created_cols(element_attributes) ==
    {Lower(c) : c \in Range(final_cols_for_create(element_attributes))}

\* ensure_table_and_columns: every result it can return, with the connection
\* state it leaves (one result per iteration order of missing_attr_cols).
ensure_table_and_columns(c, d0, table_name_suggestion, element_attributes) ==
    LET table_name_raw == sanitize_xml_name(table_name_suggestion)
        g1 == get_table_columns(c, table_name_raw)
        existing_columns == g1.cols
        cr == PgCreateTableIfNotExists(g1.c.tx, Lower(table_name_raw),
                                       final_cols_for_create(element_attributes))
        c2 == IF existing_columns # {} THEN g1.c
              ELSE [Say(g1.c, "CREATE") EXCEPT !.tx = cr.db,
                                              !.cache = (table_name_raw :>
                                                           created_cols(element_attributes)) @@ @]
        current_table_cols == get_table_columns(c2, table_name_raw).cols
        missing_attr_cols ==
            {a \in AttrColumns(element_attributes) :
                a \notin current_table_cols /\ a \notin common_db_columns}
    IN IF table_name_raw = "" THEN {[c |-> c, ret |-> NoTable]}
       ELSE IF existing_columns = {} /\ ~cr.ok
       THEN {[c |-> Rollback(Say(g1.c, "CREATE_ERR"), d0), ret |-> NoTable]}
       ELSE {LET c3 == AddColumns(c2, d0, table_name_raw, order, 1)
             IN [c   |-> c3,
                 ret |-> [table_name_raw |-> table_name_raw,
                          columns |-> get_table_columns(c3, table_name_raw).cols]]
             : order \in Orders(missing_attr_cols)}

\* delete_existing_pcr_data's catalog query.
StartsWith(s, p) == Len(s) >= Len(p) /\ SubSeq(s, 1, Len(p)) = p

tables_to_check(d) ==
    {t \in TablesOf(d) : ~StartsWith(t, "pg_") /\ t \notin {"SchemaVersions", "XMLFilesProcessed"}}

\* Mutant: the loop does not look for the pcr_uuid_context column.
RECURSIVE DeleteFromTables_any_table(_, _, _)
DeleteFromTables_any_table(c, tables, pcr_uuid) ==
    IF tables = {} THEN c
    ELSE LET table_name_raw == CHOOSE t \in tables : TRUE
             g == get_table_columns(c, table_name_raw)
             c1 == [Say(g.c, "DELETE") EXCEPT !.tx = PgDelete(@, table_name_raw, pcr_uuid)]
         IN DeleteFromTables_any_table(c1, tables \ {table_name_raw}, pcr_uuid)

\* The loop over tables_to_check for one pcr_uuid.
RECURSIVE DeleteFromTables(_, _, _)
DeleteFromTables(c, tables, pcr_uuid) ==
    IF tables = {} THEN c
    ELSE LET table_name_raw == CHOOSE t \in tables : TRUE
             g == get_table_columns(c, table_name_raw)
             c1 == IF "pcr_uuid_context" \in g.cols
                   THEN [Say(g.c, "DELETE") EXCEPT !.tx = PgDelete(@, table_name_raw, pcr_uuid)]
                   ELSE g.c
         IN DeleteFromTables(c1, tables \ {table_name_raw}, pcr_uuid)

\* Mutant: the DELETEs are sent for an empty uuid too.
delete_existing_pcr_data_for_any_uuid(c, pcr_uuid) ==
    DeleteFromTables(c, tables_to_check(c.tx), pcr_uuid)

delete_existing_pcr_data(c, pcr_uuid) ==
    IF ~Truthy(pcr_uuid) THEN c
    ELSE DeleteFromTables(c, tables_to_check(c.tx), pcr_uuid)

RECURSIVE DeleteAllPcrs(_, _)
DeleteAllPcrs(c, uuids) ==
    IF uuids = {} THEN c
    ELSE LET u == CHOOSE x \in uuids : TRUE
         IN DeleteAllPcrs(delete_existing_pcr_data(c, u), uuids \ {u})

unique_pcr_uuids_in_file(elements) ==
    {el.pcr_uuid_context : el \in {e \in Range(elements) : Truthy(e.pcr_uuid_context)}}

\* The row process_xml_file builds for an element: the common values, then the
\* attributes under their sanitized names, in iteration order.
RECURSIVE WithAttributes(_, _, _)
WithAttributes(data, attributes, i) ==
    IF i > Len(attributes) THEN data
    ELSE WithAttributes((Lower(sanitize_xml_name(attributes[i][1])) :> attributes[i][2]) @@ data,
                        attributes, i + 1)

insert_data(element) ==
    WithAttributes([k \in common_db_columns |->
                       CASE k = "element_id"        -> element.element_id
                         [] k = "parent_element_id" -> element.parent_element_id
                         [] k = "pcr_uuid_context"  -> element.pcr_uuid_context
                         [] k = "original_tag_name" -> element.element_tag
                         [] k = "text_content"      -> element.text_content],
                   element.attributes, 1)

filtered_insert_data(element, actual_table_columns) ==
    LET data == insert_data(element)
    IN [k \in {x \in DOMAIN data : Lower(x) \in actual_table_columns} |-> data[k]]

\* Mutant: the file is left where it is.
move_to_error_directory_nowhere(f, error_directory) == "none"

\* Mutant: the audit INSERT fails and the error is swallowed.
log_processed_file_lost(d, processed_file_id, status) == d

\* archive_file: nothing to move when the path does not exist.
archive_file(f, archive_directory) ==
    IF f.cond = "missing" THEN "none" ELSE archive_directory

\* move_to_error_directory: nothing to move when the path does not exist.
move_to_error_directory(f, error_directory) ==
    IF f.cond = "missing" THEN "none" ELSE error_directory

\* log_processed_file: insert the audit row and commit.
log_processed_file(d, processed_file_id, status) ==
    [d EXCEPT !.audit = Append(@, [id |-> processed_file_id, status |-> status])]

\* ------------------------------------------------------------- file system
\* A directory maps the names in it to the files' contents.
\* os.path.splitext: the extension starts at the last dot, unless that dot
\* leads the name.
LastDot(s) ==
    LET dots == {i \in 1..Len(s) : Char(s, i) = "."}
    IN IF dots = {} THEN 0 ELSE CHOOSE i \in dots : \A j \in dots : j <= i

splitext(base_filename) ==
    LET d == LastDot(base_filename)
    IN IF d <= 1 THEN [name |-> base_filename, ext |-> ""]
       ELSE [name |-> SubSeq(base_filename, 1, d - 1),
             ext  |-> SubSeq(base_filename, d, Len(base_filename))]

\* datetime.datetime.now().strftime("%Y%m%d_%H%M%S") of a clock that counts the
\* seconds of one minute.
strftime(now) ==
    "20250101_0000" \o Char(Digits, ((now \div 10) % 6) + 1) \o Char(Digits, (now % 10) + 1)

\* shutil.move onto the path of an existing file replaces that file.
shutil_move(directory, path, content) == (path :> content) @@ directory

\* archive_file's destination.
archive_path(archive_dir, base_filename, now) == base_filename

\* move_to_error_directory's destination.
error_path(error_dir, base_filename, now) ==
    IF base_filename \in DOMAIN error_dir
    THEN splitext(base_filename).name \o "_error_" \o strftime(now)
             \o splitext(base_filename).ext
    ELSE base_filename

NoFs == [error_dir |-> <<>>, archive_dir |-> <<>>, now |-> 0, moved |-> 0]

\* ------------------------------------------------------------------- state
VARIABLES
    pc,                         \* where process_xml_file stands
    db,                         \* committed database
    tx,                         \* database as the connection's transaction sees it
    cache,                      \* _table_column_cache
    nfiles,                     \* process runs started so far (processed_file_id)
    repeats,                    \* runs so far that were given the previous file again
    file,                       \* the file given to this run
    elements_data,              \* parse_xml_file's result
    idx,                        \* position of the element loop
    ensured,                    \* (table_name_raw, actual_table_columns) of the element
    current_file_foreign_keys,  \* (child, parent) pairs recorded for the file
    fk_todo,                    \* pairs the FK loop has not visited yet
    outcome,                    \* audit status and return value of the run
    issued,                     \* statements sent on the connection during the run
    snap,                       \* committed database when the run started
    moved_to,                   \* directory the run moved its file to
    again,                      \* the file handed in again after the last run, if any
    observed,                   \* (table, column) pairs of the files that returned True
    planned,                    \* constraint names the FK planner computed, per pair
    exit_code,                  \* exit status of the last process that ended
    workers,                    \* the processes of a parallel ingestion, if any
    fs                          \* the error and archive directories and the clock

vars == <<pc, db, tx, cache, nfiles, repeats, file, elements_data, idx, ensured,
          current_file_foreign_keys, fk_todo, outcome, issued, snap, moved_to, again,
          observed, planned,
                   exit_code, workers, fs>>

NoOutcome == [status |-> "none", ret |-> FALSE]

ARCHIVE_DIR == "processed_xml_archive"

ERROR_DIR == "error_files"

Conn == [tx |-> tx, cache |-> cache, issued |-> issued]

NoExit == -1

\* main() returns after printing what happened, whatever process_xml_file
\* returned; the interpreter then ends with status 0.
main_exit_code(success) == 0

Init ==
    /\ pc = "idle"
    /\ db = BootstrappedDb
    /\ tx = BootstrappedDb
    /\ cache = <<>>
    /\ nfiles = 0
    /\ repeats = 0
    /\ file = NoFile
    /\ elements_data = <<>>
    /\ idx = 0
    /\ ensured = NoTable
    /\ current_file_foreign_keys = {}
    /\ fk_todo = {}
    /\ outcome = NoOutcome
    /\ issued = <<>>
    /\ snap = BootstrappedDb
    /\ moved_to = "none"
    /\ again = NoFile
    /\ observed = {}
    /\ planned = {}
    /\ exit_code = NoExit
    /\ workers = <<>>
    /\ fs = NoFs

\* Mutant: the early return comes after the rows of the dynamic tables were
\* deleted and the deletion is committed with the audit row.
EarlyReturn_after_deletion(status, dir) ==
    /\ moved_to' = dir
    /\ db' = log_processed_file([tx EXCEPT !.rows = {}], nfiles + 1, status)
    /\ tx' = db'
    /\ outcome' = [status |-> status, ret |-> FALSE]
    /\ pc' = "done"
    /\ elements_data' = <<>>
    /\ idx' = 0

\* An early return of process_xml_file: audit row, no data transaction.
EarlyReturn(status, dir) ==
    /\ moved_to' = dir
    /\ db' = log_processed_file(tx, nfiles + 1, status)
    /\ tx' = db'
    /\ outcome' = [status |-> status, ret |-> FALSE]
    /\ pc' = "done"
    /\ elements_data' = <<>>
    /\ idx' = 0

\* main() is run on a file: process_xml_file up to the element collection.
StartFile(f) ==
    /\ pc = "idle"
    /\ IF again = NoFile THEN nfiles - repeats < MaxFiles ELSE f = again
    /\ nfiles' = nfiles + 1
    /\ repeats' = IF again = NoFile THEN repeats ELSE repeats + 1
    /\ file' = f
    /\ snap' = db
    /\ issued' = <<>>
    /\ IF f.cond = "unreadable"
       THEN EarlyReturn("Error_MD5", move_to_error_directory(f, ERROR_DIR))
       ELSE IF f.cond = "missing" THEN EarlyReturn("Error_FileNotFound", "none")
       ELSE IF parse_xml_file(f, nfiles + 1) = <<>>
       THEN EarlyReturn("Error_Parsing_Empty", move_to_error_directory(f, ERROR_DIR))
       ELSE /\ elements_data' = parse_xml_file(f, nfiles + 1)
            /\ idx' = 1
            /\ pc' = "delete"
            /\ moved_to' = "none"
            /\ UNCHANGED <<db, tx, outcome>>
    /\ UNCHANGED <<cache, ensured, current_file_foreign_keys, fk_todo, again, observed, planned,
                   exit_code, workers>>
    /\ UNCHANGED fs

\* The pre-deletion loop over unique_pcr_uuids_in_file.
DeletePcrs ==
    /\ pc = "delete"
    /\ LET c == DeleteAllPcrs(Conn, unique_pcr_uuids_in_file(elements_data))
       IN /\ tx' = c.tx
          /\ cache' = c.cache
          /\ issued' = c.issued
    /\ current_file_foreign_keys' = {}
    /\ pc' = "ensure"
    /\ UNCHANGED <<db, nfiles, repeats, file, elements_data, idx, ensured, fk_todo, outcome,
                   snap, moved_to, again, observed, planned,
                   exit_code, workers>>
    /\ UNCHANGED fs

\* One element: ensure_table_and_columns, the skip check and the FK pair.
EnsureElement ==
    /\ pc = "ensure"
    /\ LET element == elements_data[idx]
           parent_table_suggestion_raw == element.parent_table_suggestion
       IN \E e \in ensure_table_and_columns(Conn, db, element.table_suggestion,
                                            element.attributes) :
            /\ tx' = e.c.tx
            /\ cache' = e.c.cache
            /\ issued' = e.c.issued
            /\ ensured' = e.ret
            /\ IF ~Truthy(e.ret.table_name_raw) \/ e.ret.columns = {}
               THEN /\ pc' = "db_error"
                    /\ UNCHANGED current_file_foreign_keys
               ELSE /\ pc' = "insert"
                    /\ current_file_foreign_keys' =
                         IF /\ Truthy(parent_table_suggestion_raw)
                            /\ Truthy(element.parent_element_id)
                            /\ sanitize_xml_name(parent_table_suggestion_raw) # ""
                         THEN current_file_foreign_keys
                                \cup {<<e.ret.table_name_raw,
                                        sanitize_xml_name(parent_table_suggestion_raw)>>}
                         ELSE current_file_foreign_keys
    /\ UNCHANGED <<db, nfiles, repeats, file, elements_data, idx, fk_todo, outcome, snap,
                   moved_to, again, observed, planned,
                   exit_code, workers>>
    /\ UNCHANGED fs

\* One element: the INSERT of its row.
InsertElement ==
    /\ pc = "insert"
    /\ LET element == elements_data[idx]
           r == PgInsert(tx, Lower(ensured.table_name_raw),
                         filtered_insert_data(element, ensured.columns), nfiles)
       IN IF r.ok
          THEN /\ tx' = r.db
               /\ issued' = Append(issued, "INSERT")
               /\ IF idx < Len(elements_data)
                  THEN /\ idx' = idx + 1
                       /\ pc' = "ensure"
                       /\ UNCHANGED fk_todo
                  ELSE /\ idx' = idx
                       /\ fk_todo' = current_file_foreign_keys
                       /\ pc' = IF current_file_foreign_keys # {} THEN "fk" ELSE "commit"
          ELSE /\ issued' = Append(issued, "INSERT_ERR")
               /\ pc' = "db_error"
               /\ UNCHANGED <<tx, idx, fk_todo>>
    /\ UNCHANGED <<db, cache, nfiles, repeats, file, elements_data, ensured,
                   current_file_foreign_keys, outcome, snap, moved_to, again, observed, planned,
                   exit_code, workers>>
    /\ UNCHANGED fs

\* Mutant: the existence check never finds the constraint.
existing_fk_never(d, child_table_name_lowercase, fk_constraint_name_unquoted) == FALSE

\* information_schema.table_constraints filtered by table and constraint name.
existing_fk(d, child_table_name_lowercase, fk_constraint_name_unquoted) ==
    fk_constraint_name_unquoted \in ConstraintNames(d, child_table_name_lowercase)

\* One (child, parent) pair of the FK loop.
AddForeignKey(pair) ==
    /\ pc = "fk"
    /\ pair \in fk_todo
    /\ LET child_table_name_lowercase == Lower(pair[1])
           parent_table_name_lowercase == Lower(pair[2])
           name == fk_constraint_name(pair[1], pair[2])
           r == PgAddForeignKey(tx, child_table_name_lowercase,
                                parent_table_name_lowercase, name)
       IN IF existing_fk(tx, child_table_name_lowercase, name)
          THEN /\ fk_todo' = fk_todo \ {pair}
               /\ pc' = IF fk_todo' = {} THEN "commit" ELSE "fk"
               /\ UNCHANGED <<tx, issued>>
          ELSE IF r.ok
          THEN /\ tx' = r.db
               /\ issued' = Append(issued, "FK")
               /\ fk_todo' = fk_todo \ {pair}
               /\ pc' = IF fk_todo' = {} THEN "commit" ELSE "fk"
          ELSE /\ issued' = Append(issued,
                                  IF name \in ConstraintNames(tx, child_table_name_lowercase)
                                  THEN "FK_ERR_EXISTS" ELSE "FK_ERR")
               /\ pc' = "db_error"
               /\ UNCHANGED <<tx, fk_todo>>
    /\ planned' = planned \cup {[child  |-> pair[1], parent |-> pair[2],
                                  name   |-> fk_constraint_name(pair[1], pair[2])]}
    /\ UNCHANGED <<db, cache, nfiles, repeats, file, elements_data, idx, ensured,
                   current_file_foreign_keys, outcome, snap, moved_to, again, observed,
                   exit_code, workers>>
    /\ UNCHANGED fs

\* The FK loop visits the recorded pairs in the set's iteration order.
CreateForeignKey == \E pair \in fk_todo : AddForeignKey(pair)

ObservedIn(elements) ==
    UNION {{<<Lower(sanitize_xml_name(el.table_suggestion)), a>> :
                a \in common_db_columns \cup AttrColumns(el.attributes)}
           : el \in Range(elements)}

\* Mutant: the cache is not cleared when the file has committed.
CommitFile_keeping_cache ==
    /\ pc = "commit"
    /\ db' = log_processed_file(tx, nfiles, "Staged_Dynamic_PG_V4")
    /\ tx' = db'
    /\ issued' = Append(issued, "COMMIT")
    /\ outcome' = [status |-> "Staged_Dynamic_PG_V4", ret |-> TRUE]
    /\ moved_to' = archive_file(file, ARCHIVE_DIR)
    /\ cache' = cache
    /\ observed' = observed \cup ObservedIn(elements_data)
    /\ pc' = "done"
    /\ UNCHANGED <<nfiles, repeats, file, elements_data, idx, ensured,
                   current_file_foreign_keys, fk_todo, snap, again, planned,
                   exit_code, workers>>
    /\ UNCHANGED fs

\* db_conn.commit(), the Staged audit row, return True; finally: cache.clear().
CommitFile ==
    /\ pc = "commit"
    /\ db' = log_processed_file(tx, nfiles, "Staged_Dynamic_PG_V4")
    /\ tx' = db'
    /\ issued' = Append(issued, "COMMIT")
    /\ outcome' = [status |-> "Staged_Dynamic_PG_V4", ret |-> TRUE]
    /\ moved_to' = archive_file(file, ARCHIVE_DIR)
    /\ cache' = <<>>
    /\ observed' = observed \cup ObservedIn(elements_data)
    /\ pc' = "done"
    /\ UNCHANGED <<nfiles, repeats, file, elements_data, idx, ensured,
                   current_file_foreign_keys, fk_todo, snap, again, planned,
                   exit_code, workers>>
    /\ UNCHANGED fs

\* Mutant: the handler logs the error without rolling back first, so the commit
\* of log_processed_file keeps what the transaction did.
FailFile_without_rollback ==
    /\ pc = "db_error"
    /\ db' = log_processed_file(tx, nfiles, "Error_Staging_Tx_PG_V4")
    /\ tx' = db'
    /\ issued' = issued
    /\ outcome' = [status |-> "Error_Staging_Tx_PG_V4", ret |-> FALSE]
    /\ moved_to' = ERROR_DIR
    /\ cache' = <<>>
    /\ pc' = "done"
    /\ UNCHANGED <<nfiles, repeats, file, elements_data, idx, ensured,
                   current_file_foreign_keys, fk_todo, snap, again, observed, planned,
                   exit_code, workers>>
    /\ UNCHANGED fs

\* Mutant: the database error is reported with the status of the other handler.
FailFile_with_unexpected_status ==
    /\ pc = "db_error"
    /\ db' = log_processed_file(db, nfiles, "Error_Unexpected_PG_V4")
    /\ tx' = db'
    /\ issued' = Append(issued, "ROLLBACK")
    /\ outcome' = [status |-> "Error_Unexpected_PG_V4", ret |-> FALSE]
    /\ moved_to' = move_to_error_directory(file, ERROR_DIR)
    /\ cache' = <<>>
    /\ pc' = "done"
    /\ UNCHANGED <<nfiles, repeats, file, elements_data, idx, ensured,
                   current_file_foreign_keys, fk_todo, snap, again, observed, planned,
                   exit_code, workers>>
    /\ UNCHANGED fs

\* except psycopg2.Error: rollback, the Error audit row, return False; finally:
\* cache.clear().
FailFile ==
    /\ pc = "db_error"
    /\ db' = log_processed_file(db, nfiles, "Error_Staging_Tx_PG_V4")
    /\ tx' = db'
    /\ issued' = Append(issued, "ROLLBACK")
    /\ outcome' = [status |-> "Error_Staging_Tx_PG_V4", ret |-> FALSE]
    /\ moved_to' = move_to_error_directory(file, ERROR_DIR)
    /\ cache' = <<>>
    /\ pc' = "done"
    /\ UNCHANGED <<nfiles, repeats, file, elements_data, idx, ensured,
                   current_file_foreign_keys, fk_todo, snap, again, observed, planned,
                   exit_code, workers>>
    /\ UNCHANGED fs

\* Mutant: the handler keeps what the transaction did.
FailUnexpected_without_rollback ==
    /\ pc \in {"delete", "ensure", "insert", "fk"}
    /\ db' = log_processed_file(tx, nfiles, "Error_Unexpected_PG_V4")
    /\ tx' = db'
    /\ issued' = issued
    /\ outcome' = [status |-> "Error_Unexpected_PG_V4", ret |-> FALSE]
    /\ moved_to' = move_to_error_directory(file, ERROR_DIR)
    /\ cache' = <<>>
    /\ pc' = "done"
    /\ UNCHANGED <<nfiles, repeats, file, elements_data, idx, ensured,
                   current_file_foreign_keys, fk_todo, snap, again, observed, planned,
                   exit_code, workers>>
    /\ UNCHANGED fs

\* except Exception: a statement of the try block raised something that is not
\* a psycopg2.Error; rollback, the Error_Unexpected audit row, return False;
\* finally: cache.clear().
FailUnexpected ==
    /\ pc \in {"delete", "ensure", "insert", "fk"}
    /\ db' = log_processed_file(db, nfiles, "Error_Unexpected_PG_V4")
    /\ tx' = db'
    /\ issued' = Append(issued, "ROLLBACK")
    /\ outcome' = [status |-> "Error_Unexpected_PG_V4", ret |-> FALSE]
    /\ moved_to' = move_to_error_directory(file, ERROR_DIR)
    /\ cache' = <<>>
    /\ pc' = "done"
    /\ UNCHANGED <<nfiles, repeats, file, elements_data, idx, ensured,
                   current_file_foreign_keys, fk_todo, snap, again, observed, planned,
                   exit_code, workers>>
    /\ UNCHANGED fs

\* main() returns before process_xml_file is called: no connection, or the
\* ingestion logic version is not in SchemaVersions.
MainAborts ==
    /\ pc = "idle"
    /\ exit_code' = main_exit_code(FALSE)
    /\ UNCHANGED <<pc, db, tx, cache, nfiles, repeats, file, elements_data, idx, ensured,
                   current_file_foreign_keys, fk_todo, outcome, issued, snap, moved_to,
                   again, observed, planned, workers>>
    /\ UNCHANGED fs

\* The process ends; the same file may be handed to the next run.
Exit ==
    /\ pc = "done"
    /\ pc' = "idle"
    /\ again' \in {NoFile} \cup (IF file.cond = "ok" /\ repeats < MaxRepeats
                              THEN {file} ELSE {})
    /\ file' = NoFile
    /\ elements_data' = <<>>
    /\ idx' = 0
    /\ ensured' = NoTable
    /\ current_file_foreign_keys' = {}
    /\ fk_todo' = {}
    /\ outcome' = NoOutcome
    /\ issued' = <<>>
    /\ snap' = db
    /\ moved_to' = "none"
    /\ cache' = <<>>
    /\ planned' = {}
    /\ exit_code' = main_exit_code(outcome.ret)
    /\ UNCHANGED <<db, tx, nfiles, repeats, observed, workers>>
    /\ UNCHANGED fs

Next ==
    \/ \E f \in Files : StartFile(f)
    \/ DeletePcrs
    \/ EnsureElement
    \/ InsertElement
    \/ CreateForeignKey
    \/ CommitFile
    \/ FailFile
    \/ FailUnexpected
    \/ MainAborts
    \/ Exit

Spec == Init /\ [][Next]_vars

-----------------------------------------------------------------------------
\* The FK planner on table names of every length up to MaxNameLen.

LongChild == "eVitals_CardiacRhythmElectrocardiographyGroup_LongChildElementName_0123456789_x"

LongParent == "eArrest_ResuscitationAttemptedByEMS_LongParentElementName_0123456789_ABCDEFG_y"

ChildNames == {Prefix(LongChild, n) : n \in 1..MaxNameLen}

ParentNames == {Prefix(LongParent, n) : n \in 1..MaxNameLen}

\* A file is being finalized whose elements recorded the pair (child, parent)
\* and the pair the other way round.
InitFk ==
    /\ pc = "fk"
    /\ db = BootstrappedDb
    /\ tx = BootstrappedDb
    /\ cache = <<>>
    /\ nfiles = 1
    /\ repeats = 0
    /\ file = NoFile
    /\ elements_data = <<>>
    /\ idx = 0
    /\ ensured = NoTable
    /\ \E c \in ChildNames, p \in ParentNames :
          current_file_foreign_keys = {<<c, p>>, <<p, c>>}
    /\ fk_todo = current_file_foreign_keys
    /\ outcome = NoOutcome
    /\ issued = <<>>
    /\ snap = BootstrappedDb
    /\ moved_to = "none"
    /\ again = NoFile
    /\ observed = {}
    /\ planned = {}
    /\ exit_code = NoExit
    /\ workers = <<>>
    /\ fs = NoFs

\* One iteration of the FK loop up to the constraint name.
PlanForeignKey ==
    /\ pc = "fk"
    /\ \E pair \in fk_todo :
          /\ planned' = planned \cup {[child  |-> pair[1], parent |-> pair[2],
                                       name   |-> fk_constraint_name(pair[1], pair[2])]}
          /\ fk_todo' = fk_todo \ {pair}
    /\ UNCHANGED <<pc, db, tx, cache, nfiles, repeats, file, elements_data, idx, ensured,
                   current_file_foreign_keys, outcome, issued, snap, moved_to, again,
                   observed, exit_code, workers>>
    /\ UNCHANGED fs

\* A later file records the same pairs.
NextFileSamePairs ==
    /\ pc = "fk"
    /\ fk_todo = {}
    /\ nfiles < MaxFiles
    /\ nfiles' = nfiles + 1
    /\ fk_todo' = current_file_foreign_keys
    /\ UNCHANGED <<pc, db, tx, cache, repeats, file, elements_data, idx, ensured,
                   current_file_foreign_keys, outcome, issued, snap, moved_to, again,
                   observed, planned,
                   exit_code, workers>>
    /\ UNCHANGED fs

NextFk ==
    \/ PlanForeignKey
    \/ NextFileSamePairs

SpecFk == InitFk /\ [][NextFk]_vars

-----------------------------------------------------------------------------
\* The pipeline on one element whose table suggestion and attribute name have
\* every length up to MaxNameLen.

LongNameFiles ==
    {[cond  |-> "ok",
      shape |-> <<[kind   |-> [table_suggestion |-> Prefix(LongChild, n),
                               attributes       |-> <<<<Prefix(LongParent, m), "1">>>>,
                               pcr_uuid_context |-> "p1"],
                   parent |-> 0,
                   named  |-> TRUE]>>]
       : n \in 1..MaxNameLen, m \in {1, MaxNameLen}}

\* process_xml_file has parsed such a file and stands before the pre-deletion.
InitIdent ==
    /\ pc = "delete"
    /\ db = BootstrappedDb
    /\ tx = BootstrappedDb
    /\ cache = <<>>
    /\ nfiles = 1
    /\ repeats = 0
    /\ file \in LongNameFiles
    /\ elements_data = parse_xml_file(file, 1)
    /\ idx = 1
    /\ ensured = NoTable
    /\ current_file_foreign_keys = {}
    /\ fk_todo = {}
    /\ outcome = NoOutcome
    /\ issued = <<>>
    /\ snap = BootstrappedDb
    /\ moved_to = "none"
    /\ again = NoFile
    /\ observed = {}
    /\ planned = {}
    /\ exit_code = NoExit
    /\ workers = <<>>
    /\ fs = NoFs

NextIdent ==
    \/ DeletePcrs
    \/ EnsureElement
    \/ InsertElement
    \/ CommitFile

SpecIdent == InitIdent /\ [][NextIdent]_vars

-----------------------------------------------------------------------------
\* Two ingester processes on one database, each with its own connection and its
\* own _table_column_cache, each given a file of one element; the PCR UUIDs of
\* the two files differ.  The database has no dynamic table yet.  Statements of
\* the two connections interleave; a connection reads what is committed and
\* what its own transaction did (READ COMMITTED).

Workers == {1, 2}

Other(w) == 3 - w

ParallelKinds ==
    {[table_suggestion |-> t, attributes |-> a]
        : t \in {"t", "u"}, a \in {<<>>, <<<<"A", "1">>>>, <<<<"B", "2">>>>}}

WorkerFile(w, k) ==
    [cond  |-> "ok",
     shape |-> <<[kind   |-> [table_suggestion |-> k.table_suggestion,
                              attributes       |-> k.attributes,
                              pcr_uuid_context |-> "p" \o Char(Digits, w + 1)],
                  parent |-> 0,
                  named  |-> TRUE]>>]

\* What an open transaction has added: tables and columns, and rows.
Nothing == [cols |-> <<>>, rows |-> {}]

ColsIn(m, t) == IF t \in DOMAIN m THEN m[t] ELSE {}

\* The database as a connection with the uncommitted additions m reads it.
Merge(d, m) ==
    [d EXCEPT !.cols = [t \in DOMAIN d.cols \cup DOMAIN m.cols |->
                           ColsIn(d.cols, t) \cup ColsIn(m.cols, t)],
              !.rows = @ \cup m.rows]

\* The additions that turn the committed database d into the view e.
Additions(e, d) ==
    [cols |-> [t \in {x \in DOMAIN e.cols : e.cols[x] # ColsIn(d.cols, x)} |->
                  e.cols[t] \ ColsIn(d.cols, t)],
     rows |-> e.rows \ d.rows]

WorkerConn(w) ==
    [tx     |-> Merge(db, workers[w].mine),
     cache  |-> workers[w].cache,
     issued |-> workers[w].issued]

WorkerElement(w) == workers[w].elements_data[1]

\* The table the worker's element goes to, as the catalog names it.
WorkerTable(w) == Lower(sanitize_xml_name(WorkerElement(w).table_suggestion))

\* The worker's CREATE TABLE has to wait: the other connection created a table
\* of that name in a transaction that is still open.
MustWait(w) ==
    /\ get_table_columns(WorkerConn(w), sanitize_xml_name(WorkerElement(w).table_suggestion)).cols = {}
    /\ WorkerTable(w) \in DOMAIN workers[Other(w)].mine.cols

InitPar ==
    /\ pc = "parallel"
    /\ db = BootstrappedDb
    /\ tx = BootstrappedDb
    /\ cache = <<>>
    /\ nfiles = 0
    /\ repeats = 0
    /\ file = NoFile
    /\ elements_data = <<>>
    /\ idx = 1
    /\ ensured = NoTable
    /\ current_file_foreign_keys = {}
    /\ fk_todo = {}
    /\ outcome = NoOutcome
    /\ issued = <<>>
    /\ snap = BootstrappedDb
    /\ moved_to = "none"
    /\ again = NoFile
    /\ observed = {}
    /\ planned = {}
    /\ exit_code = NoExit
    /\ \E k1, k2 \in ParallelKinds :
          workers = [w \in Workers |->
                        [pc            |-> "delete",
                         elements_data |-> parse_xml_file(WorkerFile(w, IF w = 1 THEN k1 ELSE k2), w),
                         cache         |-> <<>>,
                         mine          |-> Nothing,
                         issued        |-> <<>>,
                         ensured       |-> NoTable,
                         waiting       |-> FALSE,
                         outcome       |-> NoOutcome]]
    /\ fs = NoFs

ParUnchanged ==
    UNCHANGED <<pc, tx, cache, nfiles, repeats, file, elements_data, idx, ensured,
                current_file_foreign_keys, fk_todo, outcome, issued, snap, moved_to, again,
                observed, planned, exit_code, fs>>

\* The pre-deletion of the worker's PCR UUIDs.
WorkerDeletePcrs(w) ==
    /\ workers[w].pc = "delete"
    /\ LET c == DeleteAllPcrs(WorkerConn(w),
                              unique_pcr_uuids_in_file(workers[w].elements_data))
       IN workers' = [workers EXCEPT ![w].mine = Additions(c.tx, db),
                                     ![w].cache = c.cache,
                                     ![w].issued = c.issued,
                                     ![w].pc = "columns"]
    /\ UNCHANGED db
    /\ ParUnchanged

\* ensure_table_and_columns up to existing_columns: the catalog query of
\* get_table_columns, whose answer goes to the worker's cache.
WorkerGetColumns(w) ==
    /\ workers[w].pc = "columns"
    /\ LET g == get_table_columns(WorkerConn(w),
                                  sanitize_xml_name(WorkerElement(w).table_suggestion))
       IN workers' = [workers EXCEPT ![w].cache = g.c.cache,
                                     ![w].pc = "ensure"]
    /\ UNCHANGED db
    /\ ParUnchanged

\* The worker sends its CREATE TABLE IF NOT EXISTS and PostgreSQL makes it wait
\* for the transaction that created the same name.
WorkerWaits(w) ==
    /\ workers[w].pc = "ensure"
    /\ ~workers[w].waiting
    /\ MustWait(w)
    /\ workers' = [workers EXCEPT ![w].waiting = TRUE]
    /\ UNCHANGED db
    /\ ParUnchanged

\* The rest of ensure_table_and_columns.  A CREATE TABLE that waited fails with
\* a unique violation when the other transaction committed the name.
WorkerEnsure(w) ==
    /\ workers[w].pc = "ensure"
    /\ ~MustWait(w)
    /\ LET element == WorkerElement(w)
           lost == workers[w].waiting /\ WorkerTable(w) \in TablesOf(db)
           results ==
               IF lost
               THEN {[c   |-> Rollback(Say(WorkerConn(w), "CREATE_ERR"), db),
                      ret |-> NoTable]}
               ELSE ensure_table_and_columns(WorkerConn(w), db, element.table_suggestion,
                                             element.attributes)
       IN \E e \in results :
            workers' = [workers EXCEPT
                           ![w].mine = Additions(e.c.tx, db),
                           ![w].cache = e.c.cache,
                           ![w].issued = e.c.issued,
                           ![w].ensured = e.ret,
                           ![w].waiting = FALSE,
                           ![w].pc = IF ~Truthy(e.ret.table_name_raw) \/ e.ret.columns = {}
                                     THEN "db_error" ELSE "insert"]
    /\ UNCHANGED db
    /\ ParUnchanged

\* The INSERT of the worker's row.
WorkerInsert(w) ==
    /\ workers[w].pc = "insert"
    /\ LET element == WorkerElement(w)
           r == PgInsert(WorkerConn(w).tx, Lower(workers[w].ensured.table_name_raw),
                         filtered_insert_data(element, workers[w].ensured.columns), w)
       IN workers' = IF r.ok
                     THEN [workers EXCEPT ![w].mine = Additions(r.db, db),
                                          ![w].issued = Append(@, "INSERT"),
                                          ![w].pc = "commit"]
                     ELSE [workers EXCEPT ![w].issued = Append(@, "INSERT_ERR"),
                                          ![w].pc = "db_error"]
    /\ UNCHANGED db
    /\ ParUnchanged

\* conn.commit() and the audit row of the success.
WorkerCommit(w) ==
    /\ workers[w].pc = "commit"
    /\ db' = log_processed_file(Merge(db, workers[w].mine), w, "Staged_Dynamic_PG_V4")
    /\ workers' = [workers EXCEPT
                      ![w].mine = Nothing,
                      ![w].issued = Append(@, "COMMIT"),
                      ![w].outcome = [status |-> "Staged_Dynamic_PG_V4", ret |-> TRUE],
                      ![w].pc = "done"]
    /\ ParUnchanged

\* except psycopg2.Error: rollback and the audit row of the failure.
WorkerFails(w) ==
    /\ workers[w].pc = "db_error"
    /\ db' = log_processed_file(db, w, "Error_Staging_Tx_PG_V4")
    /\ workers' = [workers EXCEPT
                      ![w].mine = Nothing,
                      ![w].issued = Append(@, "ROLLBACK"),
                      ![w].outcome = [status |-> "Error_Staging_Tx_PG_V4", ret |-> FALSE],
                      ![w].pc = "done"]
    /\ ParUnchanged

DeletePcrsPar == \E w \in Workers : WorkerDeletePcrs(w)
GetColumnsPar == \E w \in Workers : WorkerGetColumns(w)
WaitsPar == \E w \in Workers : WorkerWaits(w)
EnsurePar == \E w \in Workers : WorkerEnsure(w)
InsertPar == \E w \in Workers : WorkerInsert(w)
CommitPar == \E w \in Workers : WorkerCommit(w)
FailsPar == \E w \in Workers : WorkerFails(w)

NextPar ==
    \/ DeletePcrsPar
    \/ GetColumnsPar
    \/ WaitsPar
    \/ EnsurePar
    \/ InsertPar
    \/ CommitPar
    \/ FailsPar

SpecPar == InitPar /\ [][NextPar]_vars

-----------------------------------------------------------------------------
\* The pipeline on one element that has two or three attributes, some of which
\* sanitize to the same identifier, for a table that does not exist yet and for
\* one that an earlier file created.

CollidingNames == {"Foo-Bar", "Foo_Bar", "foo.bar", "b"}

\* Each attribute carries a value of its own.
ValueOf(name) ==
    CASE name = "Foo-Bar" -> "1"
      [] name = "Foo_Bar" -> "2"
      [] name = "foo.bar" -> "3"
      [] OTHER            -> "4"

AttributeLists ==
    {[i \in DOMAIN o |-> <<o[i], ValueOf(o[i])>>]
        : o \in UNION {Orders(S) : S \in {T \in SUBSET CollidingNames : Cardinality(T) \in {2, 3}}}}

CollidingFiles ==
    {[cond  |-> "ok",
      shape |-> <<[kind   |-> [table_suggestion |-> "t",
                               attributes       |-> a,
                               pcr_uuid_context |-> "p1"],
                   parent |-> 0,
                   named  |-> TRUE]>>] : a \in AttributeLists}

\* The database after a first file with one element (t, no attributes, PCR p2).
DbWithTable ==
    [BootstrappedDb EXCEPT
        !.cols = ("t" :> common_db_columns) @@ @,
        !.rows = {[tbl  |-> "t",
                   vals |-> [element_id |-> ElementId(1, 1), pcr_uuid_context |-> "p2",
                             original_tag_name |-> "t", text_content |-> "x"],
                   run  |-> 1]},
        !.audit = <<[id |-> 1, status |-> "Staged_Dynamic_PG_V4"]>>]

InitAttr ==
    /\ pc = "delete"
    /\ db \in {BootstrappedDb, DbWithTable}
    /\ tx = db
    /\ snap = db
    /\ cache = <<>>
    /\ nfiles = Len(db.audit) + 1
    /\ repeats = 0
    /\ file \in CollidingFiles
    /\ elements_data = parse_xml_file(file, nfiles)
    /\ idx = 1
    /\ ensured = NoTable
    /\ current_file_foreign_keys = {}
    /\ fk_todo = {}
    /\ outcome = NoOutcome
    /\ issued = <<>>
    /\ moved_to = "none"
    /\ again = NoFile
    /\ observed = {}
    /\ planned = {}
    /\ exit_code = NoExit
    /\ workers = <<>>
    /\ fs = NoFs

NextAttr ==
    \/ DeletePcrs
    \/ EnsureElement
    \/ InsertElement
    \/ CommitFile

SpecAttr == InitAttr /\ [][NextAttr]_vars

-----------------------------------------------------------------------------
\* The pipeline on files in which an element's table suggestion has nothing left
\* after sanitization.

EmptyNames == {"", "  "}

EmptyNameKinds ==
    {[table_suggestion |-> n, attributes |-> <<>>, pcr_uuid_context |-> "p1"] : n \in EmptyNames}

EmptyNameFiles ==
    {[cond |-> "ok", shape |-> s] :
        s \in {x \in UNION {[1..n -> [kind   : ElementKinds \cup EmptyNameKinds,
                                       parent : {0},
                                       named  : {TRUE}]] : n \in 1..MaxElems} :
                 \E i \in DOMAIN x : x[i].kind \in EmptyNameKinds}}

\* process_xml_file has parsed such a file and stands before the pre-deletion.
InitEmpty ==
    /\ pc = "delete"
    /\ db \in {BootstrappedDb, DbWithTable}
    /\ tx = db
    /\ snap = db
    /\ cache = <<>>
    /\ nfiles = Len(db.audit) + 1
    /\ repeats = 0
    /\ file \in EmptyNameFiles
    /\ elements_data = parse_xml_file(file, nfiles)
    /\ idx = 1
    /\ ensured = NoTable
    /\ current_file_foreign_keys = {}
    /\ fk_todo = {}
    /\ outcome = NoOutcome
    /\ issued = <<>>
    /\ moved_to = "none"
    /\ again = NoFile
    /\ observed = {}
    /\ planned = {}
    /\ exit_code = NoExit
    /\ workers = <<>>
    /\ fs = NoFs

NextEmpty ==
    \/ DeletePcrs
    \/ EnsureElement
    \/ InsertElement
    \/ FailFile

SpecEmpty == InitEmpty /\ [][NextEmpty]_vars

-----------------------------------------------------------------------------
\* The error and archive directories over runs on files with few base names.

BaseNames == {"a.xml", "b"}

MaxMoves == 4

MaxClock == 1

OnlyFs ==
    UNCHANGED <<pc, db, tx, cache, nfiles, repeats, file, elements_data, idx, ensured,
                current_file_foreign_keys, fk_todo, outcome, issued, snap, moved_to, again,
                observed, planned, exit_code, workers>>

InitFs == Init

\* move_to_error_directory on an existing file; its content is the number of
\* the move.
MoveToErrorDirectory ==
    /\ fs.moved < MaxMoves
    /\ \E base_filename \in BaseNames :
         fs' = [fs EXCEPT !.error_dir =
                            shutil_move(@, error_path(@, base_filename, fs.now), fs.moved + 1),
                          !.moved = @ + 1]
    /\ OnlyFs

\* archive_file on an existing file.
ArchiveFile ==
    /\ fs.moved < MaxMoves
    /\ \E base_filename \in BaseNames :
         fs' = [fs EXCEPT !.archive_dir =
                            shutil_move(@, archive_path(@, base_filename, fs.now), fs.moved + 1),
                          !.moved = @ + 1]
    /\ OnlyFs

\* A second passes.
Tick ==
    /\ fs.now < MaxClock
    /\ fs' = [fs EXCEPT !.now = @ + 1]
    /\ OnlyFs

NextFs ==
    \/ MoveToErrorDirectory
    \/ ArchiveFile
    \/ Tick

SpecFs == InitFs /\ [][NextFs]_vars

-----------------------------------------------------------------------------
\* database_setup.py and the version lookup of main.

INGESTION_LOGIC_VERSION_NUMBER == "1.0.0-dynamic-ingestor-v4"

\* Values of add_initial_schema_version's parameters.
VersionNumbers == {INGESTION_LOGIC_VERSION_NUMBER, "1.0.0-dynamic-ingestor-v3"}

DemographicGroups == {Null, "SystemInternal_PG_v4"}

MaxStatements == 7

\* A database without tables.
EmptyDb == [cols |-> <<>>, rows |-> {}, fks |-> {}, audit |-> <<>>, schemas |-> {"public"}]

\* create_tables: CREATE TABLE IF NOT EXISTS for both audit tables, commit.
create_tables(d) ==
    [d EXCEPT !.cols = @ @@ ("schemaversions" :> SchemaVersionsCols)
                         @@ ("xmlfilesprocessed" :> XMLFilesProcessedCols)]

SchemaVersions(d) == RowsIn(d, "schemaversions")

\* A row of SchemaVersions; SchemaVersionID is SERIAL.
SchemaVersionRow(d, version_number, demographic_group) ==
    LET vals == [schemaversionid  |-> Char(Digits, Cardinality(SchemaVersions(d)) + 2),
                 versionnumber    |-> version_number,
                 demographicgroup |-> demographic_group]
    IN [tbl  |-> "schemaversions",
        vals |-> [c \in {k \in DOMAIN vals : vals[k] # Null} |-> vals[c]],
        run  |-> 0]

\* add_initial_schema_version on connection c = [tx, cache, issued]: SELECT
\* COUNT(*), and INSERT and commit if the count is 0.  The SELECT raises when
\* the table does not exist.
add_initial_schema_version(c, version_number, demographic_group) ==
    IF "schemaversions" \notin TablesOf(c.tx) THEN Say(c, "COUNT_ERR")
    ELSE IF SchemaVersions(c.tx) = {}
    THEN [Say(Say(Say(c, "COUNT"), "INSERT"), "COMMIT") EXCEPT
             !.tx.rows = @ \cup {SchemaVersionRow(c.tx, version_number, demographic_group)}]
    ELSE Say(c, "COUNT")

\* get_ingestion_logic_schema_id: SELECT SchemaVersionID ... WHERE VersionNumber = %s.
get_ingestion_logic_schema_id(d, version_number) ==
    LET found == {r \in SchemaVersions(d) : Val(r, "versionnumber") = version_number}
    IN IF found = {} THEN Null ELSE Val(CHOOSE r \in found : TRUE, "schemaversionid")

InitBoot ==
    /\ pc = "idle"
    /\ db = EmptyDb
    /\ tx = EmptyDb
    /\ snap = EmptyDb
    /\ cache = <<>>
    /\ nfiles = 0
    /\ repeats = 0
    /\ file = NoFile
    /\ elements_data = <<>>
    /\ idx = 0
    /\ ensured = NoTable
    /\ current_file_foreign_keys = {}
    /\ fk_todo = {}
    /\ outcome = NoOutcome
    /\ issued = <<>>
    /\ moved_to = "none"
    /\ again = NoFile
    /\ observed = {}
    /\ planned = {}
    /\ exit_code = NoExit
    /\ workers = <<>>
    /\ fs = NoFs

OnlyDb ==
    UNCHANGED <<pc, cache, nfiles, repeats, file, elements_data, idx, ensured,
                current_file_foreign_keys, fk_todo, outcome, snap, moved_to, again,
                observed, planned, workers, fs>>

\* python database_setup.py: create_tables, then add_initial_schema_version
\* with the default version.
DatabaseSetup ==
    /\ Len(issued) < MaxStatements
    /\ LET c == add_initial_schema_version(
                    [tx |-> create_tables(db), cache |-> cache,
                     issued |-> Append(issued, "CREATE_AUDIT")],
                    INGESTION_LOGIC_VERSION_NUMBER, "SystemInternal_PG_v4")
       IN /\ db' = c.tx
          /\ tx' = c.tx
          /\ issued' = c.issued
    /\ UNCHANGED exit_code
    /\ OnlyDb

\* create_tables alone: the setup of a release ended after it.
CreateTables ==
    /\ Len(issued) < MaxStatements
    /\ db' = create_tables(db)
    /\ tx' = db'
    /\ issued' = Append(issued, "CREATE_AUDIT_ONLY")
    /\ UNCHANGED exit_code
    /\ OnlyDb

\* add_initial_schema_version alone, with the version number of any release.
AddInitialSchemaVersion ==
    /\ Len(issued) < MaxStatements
    /\ \E version_number \in VersionNumbers, demographic_group \in DemographicGroups :
         LET c == add_initial_schema_version(Conn, version_number, demographic_group)
         IN /\ db' = c.tx
            /\ tx' = c.tx
            /\ issued' = c.issued
    /\ UNCHANGED exit_code
    /\ OnlyDb

\* main looks the ingestion logic version up and returns when it is not there.
MainLooksUp ==
    /\ Len(issued) < MaxStatements
    /\ "schemaversions" \in TablesOf(db)
    /\ LET ingestion_schema_id ==
               get_ingestion_logic_schema_id(db, INGESTION_LOGIC_VERSION_NUMBER)
       IN IF ingestion_schema_id = Null
          THEN /\ issued' = Append(issued, "SELECT_ID_NONE")
               /\ exit_code' = main_exit_code(FALSE)
          ELSE /\ issued' = Append(issued, "SELECT_ID")
               /\ UNCHANGED exit_code
    /\ UNCHANGED <<db, tx>>
    /\ OnlyDb

NextBoot ==
    \/ DatabaseSetup
    \/ CreateTables
    \/ AddInitialSchemaVersion
    \/ MainLooksUp

SpecBoot == InitBoot /\ [][NextBoot]_vars

-----------------------------------------------------------------------------
\* create_schema_if_not_exists of database_setup.py, in the two definitions the
\* file holds.

\* Schema names the configuration can give (PG_SCHEMA).
SchemaNames == {"public", "nemsis", "Nemsis_2", "my-schema", "1st", ""}

\* re.match(r'^[a-zA-Z_][a-zA-Z0-9_]*$', schema_name)
MatchesSchemaName(schema_name) ==
    /\ Len(schema_name) > 0
    /\ Char(schema_name, 1) \in WordChars \ DigitChars
    /\ \A i \in 1..Len(schema_name) : Char(schema_name, i) \in WordChars

\* CREATE SCHEMA [IF NOT EXISTS] "name": a quoted name may hold any character
\* but must not be empty.
PgCreateSchema(d, schema_name, if_not_exists) ==
    IF schema_name = "" THEN Result(FALSE, d)
    ELSE IF PgIdent(schema_name) \in d.schemas THEN Result(if_not_exists, d)
    ELSE Result(TRUE, [d EXCEPT !.schemas = @ \cup {PgIdent(schema_name)}])

\* The definition at the top of the file: no test of the name; CREATE SCHEMA IF
\* NOT EXISTS and commit, or rollback and raise again.
create_schema_if_not_exists(c, d0, schema_name) ==
    LET r == PgCreateSchema(c.tx, schema_name, TRUE)
    IN IF schema_name = "public" THEN [c |-> c, raised |-> "none"]
       ELSE IF r.ok
       THEN [c |-> Say([Say(c, "CREATE SCHEMA IF NOT EXISTS") EXCEPT !.tx = r.db], "COMMIT"),
             raised |-> "none"]
       ELSE [c |-> Rollback(Say(c, "CREATE SCHEMA IF NOT EXISTS_ERR"), d0),
             raised |-> "psycopg2.Error"]

\* The definition further down: the name is tested first; CREATE SCHEMA without
\* IF NOT EXISTS, nothing caught.
create_schema_if_not_exists_validating(c, d0, schema_name) ==
    LET r == PgCreateSchema(c.tx, schema_name, FALSE)
    IN IF ~MatchesSchemaName(schema_name) THEN [c |-> c, raised |-> "ValueError"]
       ELSE IF schema_name = "public" THEN [c |-> c, raised |-> "none"]
       ELSE IF r.ok
       THEN [c |-> Say([Say(c, "CREATE SCHEMA") EXCEPT !.tx = r.db], "COMMIT"),
             raised |-> "none"]
       ELSE [c |-> Say(c, "CREATE SCHEMA_ERR"), raised |-> "psycopg2.Error"]

OnlySchema ==
    UNCHANGED <<pc, cache, nfiles, repeats, file, elements_data, idx, ensured,
                current_file_foreign_keys, fk_todo, snap, moved_to, again,
                observed, planned, exit_code, workers, fs>>

\* What a call of create_schema_if_not_exists leaves behind.
Called(r, schema_name) ==
    /\ db' = r.c.tx
    /\ tx' = r.c.tx
    /\ issued' = r.c.issued
    /\ outcome' = [status |-> r.raised, ret |-> r.raised = "none", schema_name |-> schema_name]
    /\ OnlySchema

CreateSchemaIfNotExists ==
    /\ Len(issued) < MaxStatements
    /\ \E schema_name \in SchemaNames :
         Called(create_schema_if_not_exists(Conn, db, schema_name), schema_name)

CreateSchemaIfNotExistsValidating ==
    /\ Len(issued) < MaxStatements
    /\ \E schema_name \in SchemaNames :
         Called(create_schema_if_not_exists_validating(Conn, db, schema_name), schema_name)

NextSchema ==
    \/ CreateSchemaIfNotExists
    \/ CreateSchemaIfNotExistsValidating

SpecSchema == InitBoot /\ [][NextSchema]_vars

-----------------------------------------------------------------------------
\* The pipeline on one element with attributes whose sanitized names are names
\* of common columns.

CommonNamedAttributes ==
    {<<"pcr_uuid_context", "p9">>, <<"Text.Content", "y">>, <<"Element-Id", "e11">>,
     <<"b", "4">>}

CommonNamedLists ==
    UNION {Orders(S) : S \in {T \in SUBSET CommonNamedAttributes : Cardinality(T) \in {1, 2}}}

CommonNamedFiles ==
    {[cond  |-> "ok",
      shape |-> <<[kind   |-> [table_suggestion |-> "t",
                               attributes       |-> a,
                               pcr_uuid_context |-> "p1"],
                   parent |-> 0,
                   named  |-> TRUE]>>] : a \in CommonNamedLists}

\* process_xml_file has parsed such a file and stands before the pre-deletion.
InitCommon ==
    /\ pc = "delete"
    /\ db \in {BootstrappedDb, DbWithTable}
    /\ tx = db
    /\ snap = db
    /\ cache = <<>>
    /\ nfiles = Len(db.audit) + 1
    /\ repeats = 0
    /\ file \in CommonNamedFiles
    /\ elements_data = parse_xml_file(file, nfiles)
    /\ idx = 1
    /\ ensured = NoTable
    /\ current_file_foreign_keys = {}
    /\ fk_todo = {}
    /\ outcome = NoOutcome
    /\ issued = <<>>
    /\ moved_to = "none"
    /\ again = NoFile
    /\ observed = {}
    /\ planned = {}
    /\ exit_code = NoExit
    /\ workers = <<>>
    /\ fs = NoFs

NextCommon ==
    \/ DeletePcrs
    \/ EnsureElement
    \/ InsertElement
    \/ CommitFile
    \/ FailFile

SpecCommon == InitCommon /\ [][NextCommon]_vars

-----------------------------------------------------------------------------
\* The pipeline on well-formed files: trees of elements over three tables, each
\* child naming its parent and its parent's table.

MaxTreeElems == 3

TreeKinds ==
    {[table_suggestion |-> t, attributes |-> <<>>, pcr_uuid_context |-> "p1"]
        : t \in {"t", "u", "v"}}

TreeFiles ==
    {[cond |-> "ok", shape |-> s] :
        s \in UNION {{x \in [1..n -> [kind : TreeKinds, parent : 0..(n - 1), named : {TRUE}]] :
                         \A i \in 1..n : x[i].parent < i} : n \in 1..MaxTreeElems}}

\* process_xml_file has parsed such a file and stands before the pre-deletion;
\* the database has no dynamic table.
InitTree ==
    /\ pc = "delete"
    /\ db = BootstrappedDb
    /\ tx = db
    /\ snap = db
    /\ cache = <<>>
    /\ nfiles = 1
    /\ repeats = 0
    /\ file \in TreeFiles
    /\ elements_data = parse_xml_file(file, nfiles)
    /\ idx = 1
    /\ ensured = NoTable
    /\ current_file_foreign_keys = {}
    /\ fk_todo = {}
    /\ outcome = NoOutcome
    /\ issued = <<>>
    /\ moved_to = "none"
    /\ again = NoFile
    /\ observed = {}
    /\ planned = {}
    /\ exit_code = NoExit
    /\ workers = <<>>
    /\ fs = NoFs

NextTree ==
    \/ DeletePcrs
    \/ EnsureElement
    \/ InsertElement
    \/ CreateForeignKey
    \/ CommitFile
    \/ FailFile

SpecTree == InitTree /\ [][NextTree]_vars

-----------------------------------------------------------------------------
\* The FK planner on two pairs with the same child table: a child made of two
\* parts, and as parents short names, a name that begins with the child's second
\* part, and the name that reads like the digest of that pair's ideal name.

TwoPartChild == "evitals_cardiacrhythmelecx_earrest_resuscitationa_g07"

PairChildren == {Prefix(TwoPartChild, n) : n \in 48..Len(TwoPartChild)}

\* The child's second part, going on.
SecondPartParent(child) == SubSeq(child, 28, Len(child)) \o "_detail"

DigestNamedParent(child) ==
    sanitize_xml_name(Md5Hex6("fk_" \o child \o "_" \o SecondPartParent(child)))

PairParents(child) ==
    {"t", "u", Prefix(LongParent, 40), SecondPartParent(child), DigestNamedParent(child)}

InitFkPair ==
    /\ pc = "fk"
    /\ db = BootstrappedDb
    /\ tx = BootstrappedDb
    /\ cache = <<>>
    /\ nfiles = 1
    /\ repeats = 0
    /\ file = NoFile
    /\ elements_data = <<>>
    /\ idx = 0
    /\ ensured = NoTable
    /\ \E c \in PairChildren : \E p, q \in PairParents(c) :
          /\ p # q
          /\ current_file_foreign_keys = {<<c, p>>, <<c, q>>}
    /\ fk_todo = current_file_foreign_keys
    /\ outcome = NoOutcome
    /\ issued = <<>>
    /\ snap = BootstrappedDb
    /\ moved_to = "none"
    /\ again = NoFile
    /\ observed = {}
    /\ planned = {}
    /\ exit_code = NoExit
    /\ workers = <<>>
    /\ fs = NoFs

SpecFkPair == InitFkPair /\ [][NextFk]_vars

-----------------------------------------------------------------------------
\* The migration 1941212973eb: text_content <-> <table_name>_value.

\* Dynamic tables of a schema the ingester left behind: a short name, a name
\* that begins with "pg", and a name of 58 characters.
LongTable == Lower(Prefix(LongParent, 58))

MigrationTables == {"t", "pgx", LongTable}

\* Attribute columns a dynamic table may carry next to the common columns.
MigrationAttributes(t) == {{}, {"a"}, {"a_value"}, {PgIdent(t \o "_value")}}

MigrationSchemas ==
    {[BootstrappedDb EXCEPT
         !.cols = [t \in S |-> common_db_columns \cup attrs[t]] @@ @] :
       <<S, attrs>> \in
         UNION {{<<S, a>> : a \in [S -> UNION {MigrationAttributes(t) : t \in S}]} :
                S \in SUBSET MigrationTables}}

\* table_name NOT IN ('SchemaVersions', 'XMLFilesProcessed'), on catalog names
NotInSystemNames(t) == t \notin {"SchemaVersions", "XMLFilesProcessed"}

\* table_name LIKE 'pg_%': "pg", one character, then anything
LikePgPrefix(t) == Len(t) >= 3 /\ SubSeq(t, 1, 2) = "pg"

\* column_name LIKE '%_value': anything, one character, "value"
LikeValueSuffix(col) == Len(col) >= 6 /\ SubSeq(col, Len(col) - 4, Len(col)) = "value"

\* ALTER TABLE t RENAME COLUMN old TO new
PgRenameColumn(d, t, old, new) ==
    LET n == PgIdent(new) IN
    IF t \notin TablesOf(d) \/ old \notin d.cols[t] \/ n \in d.cols[t]
    THEN [ok |-> FALSE, db |-> d]
    ELSE [ok |-> TRUE,
          db |-> [d EXCEPT !.cols[t] = (@ \ {old}) \cup {n}]]

RECURSIVE RenameEach(_, _)
\* the loop over the rows of the query; pairs are <<table, old, new>>
RenameEach(d, todo) ==
    IF todo = {} THEN [ok |-> TRUE, db |-> d, stmts |-> <<>>]
    ELSE LET x == CHOOSE y \in todo : TRUE
             r == PgRenameColumn(d, x[1], x[2], x[3])
         IN  IF ~r.ok
             THEN [ok |-> FALSE, db |-> d, stmts |-> <<"RENAME_ERR">>]
             ELSE LET rest == RenameEach(r.db, todo \ {x})
                  IN  [rest EXCEPT !.stmts = <<"RENAME">> \o @]

tables_with_text_content(d) ==
    {t \in TablesOf(d) :
        /\ "text_content" \in d.cols[t]
        /\ NotInSystemNames(t)
        /\ ~LikePgPrefix(t)}

upgrade(d) ==
    RenameEach(d, {<<t, "text_content", t \o "_value">> : t \in tables_with_text_content(d)})

table_column_pairs(d) ==
    {<<t, col>> \in UNION {{<<t, col>> : col \in d.cols[t]} : t \in TablesOf(d)} :
        /\ LikeValueSuffix(col)
        /\ NotInSystemNames(t)
        /\ ~LikePgPrefix(t)
        /\ col = t \o "_value"}

downgrade(d) ==
    RenameEach(d, {<<x[1], x[2], "text_content">> : x \in table_column_pairs(d)})

InitMigration ==
    /\ pc = "base"
    /\ db \in MigrationSchemas
    /\ tx = db
    /\ snap = db
    /\ cache = <<>>
    /\ nfiles = 0
    /\ repeats = 0
    /\ file = NoFile
    /\ elements_data = <<>>
    /\ idx = 0
    /\ ensured = NoTable
    /\ current_file_foreign_keys = {}
    /\ fk_todo = {}
    /\ outcome = NoOutcome
    /\ issued = <<>>
    /\ moved_to = "none"
    /\ again = NoFile
    /\ observed = {}
    /\ planned = {}
    /\ exit_code = NoExit
    /\ workers = <<>>
    /\ fs = NoFs

OnlyMigration ==
    UNCHANGED <<cache, nfiles, repeats, file, elements_data, idx, ensured,
                current_file_foreign_keys, fk_todo, moved_to, again,
                observed, planned, exit_code, workers, fs>>

\* run_migrations_online: the revision's function inside one transaction; the
\* revision is stamped only when the function returns.
Migrated(r, step, from, to) ==
    /\ db' = IF r.ok THEN r.db ELSE db
    /\ tx' = db'
    /\ issued' = r.stmts \o <<IF r.ok THEN "COMMIT" ELSE "ROLLBACK">>
    /\ outcome' = [status |-> step, ret |-> r.ok]
    /\ pc' = IF r.ok THEN to ELSE from
    /\ OnlyMigration

Upgrade ==
    /\ pc = "base"
    /\ outcome.status = "none"
    /\ snap' = db
    /\ Migrated(upgrade(db), "upgrade", "base", "head")

Downgrade ==
    /\ pc = "head"
    /\ UNCHANGED snap
    /\ Migrated(downgrade(db), "downgrade", "head", "base")

NextMigration == Upgrade \/ Downgrade

SpecMigration == InitMigration /\ [][NextMigration]_vars

\* ------------------------------------------------------------------ claims
Returned == pc = "done"

Committed == pc = "done" /\ outcome.ret

FilePcrs == unique_pcr_uuids_in_file(elements_data)

Data(d) == [cols |-> d.cols, rows |-> d.rows, fks |-> d.fks]

Sent(stmt) == stmt \in Range(issued)

\* C1: right after process_xml_file commits a file, every row whose
\* pcr_uuid_context is one of the file's PCR UUIDs was inserted by this run.
C1_OverwriteByPcr ==
    Committed =>
        \A r \in db.rows :
            Val(r, "pcr_uuid_context") \in FilePcrs => r.run = nfiles

\* C2: when the INSERT of an element fails, the committed database after the
\* return holds no row, table, column or foreign key of the file, and every row
\* the pre-deletion removed is still there.
C2_InsertFailureLeavesNothing ==
    (Returned /\ Sent("INSERT_ERR")) =>
        /\ Data(db) = Data(snap)
        /\ ~outcome.ret

\* The INSERT of a later element failed after an earlier row was inserted, the
\* schema was extended and rows of the file's PCRs were deleted.
C2_Witness ==
    /\ Returned
    /\ idx >= 2
    /\ issued[Len(issued) - 1] = "INSERT_ERR"
    /\ Sent("INSERT")
    /\ Sent("ALTER") \/ Sent("CREATE")
    /\ \E r \in snap.rows : Val(r, "pcr_uuid_context") \in FilePcrs
    /\ ~Sent("ALTER_ERR")

\* C3: between the first PCR delete of a file and the final commit or rollback
\* of process_xml_file, no commit and no rollback is issued on the connection.
C3_SingleTransaction ==
    Returned =>
        \A i, j \in 1..Len(issued) :
            (i < j /\ j < Len(issued) /\ issued[i] = "DELETE")
                => issued[j] \notin {"COMMIT", "ROLLBACK"}

\* C4: whenever a CREATE TABLE or an ADD COLUMN fails, the file fails as a whole:
\* False is returned, nothing of the file is committed, the audit row says
\* Error_Staging_Tx_PG_V4 and the file is in the error directory.
C4_SchemaErrorFailsFile ==
    (Returned /\ (Sent("CREATE_ERR") \/ Sent("ALTER_ERR"))) =>
        /\ ~outcome.ret
        /\ Data(db) = Data(snap)
        /\ db.audit = Append(snap.audit, [id |-> nfiles, status |-> "Error_Staging_Tx_PG_V4"])
        /\ moved_to = ERROR_DIR

\* The rows of PCR u as C5 compares them: table, original tag, text and
\* attribute values, with their multiplicities.
Projection(r) ==
    [tbl  |-> r.tbl,
     vals |-> [c \in DOMAIN r.vals \ {"element_id", "parent_element_id"} |-> r.vals[c]]]

PcrRows(d, u) == {r \in d.rows : Val(r, "pcr_uuid_context") = u}

PcrBag(d, u) ==
    [p \in {Projection(r) : r \in PcrRows(d, u)} |->
        Cardinality({r \in PcrRows(d, u) : Projection(r) = p})]

\* C5: a run that is given the file of the run before it once more leaves, for
\* every PCR of the file, the rows the run before it left.
C5_ReingestIdempotent ==
    (Returned /\ again = file /\ file # NoFile) =>
        \A u \in FilePcrs : PcrBag(db, u) = PcrBag(snap, u)

JustInserted ==
    /\ pc \in {"ensure", "fk", "commit"}
    /\ issued # <<>>
    /\ issued[Len(issued)] = "INSERT"

InsertedElement == elements_data[IF pc = "ensure" THEN idx - 1 ELSE idx]

\* C6: whenever a row is inserted, the column set ensure_table_and_columns
\* returned holds every key of the built row, and the row stores every value.
C6_NoAttributeLost ==
    JustInserted =>
        LET data == insert_data(InsertedElement) IN
        /\ DOMAIN data \subseteq ensured.columns
        /\ \E r \in RowsIn(tx, Lower(ensured.table_name_raw)) :
              \A k \in DOMAIN data : Val(r, k) = data[k]

FksBetween(d, child, parent) == {k \in d.fks : k.child = child /\ k.parent = parent}

\* C7: after a commit every recorded (child, parent) pair has exactly one foreign
\* key, with the planner's name; and no ALTER ever fails because the constraint
\* exists already.
C7_FkUnique ==
    /\ ~Sent("FK_ERR_EXISTS")
    /\ Committed =>
          \A pair \in current_file_foreign_keys :
              FksBetween(db, Lower(pair[1]), Lower(pair[2]))
                  = {[child  |-> Lower(pair[1]),
                      parent |-> Lower(pair[2]),
                      name   |-> fk_constraint_name(pair[1], pair[2])]}

\* A committed file recorded a pair whose foreign key an earlier file had created.
C7_Witness ==
    /\ Committed
    /\ \E pair \in current_file_foreign_keys :
          FksBetween(snap, Lower(pair[1]), Lower(pair[2])) # {}

\* C9: every dynamic table of the committed database has the five common columns.
C9_CommonColumns ==
    \A t \in DynamicTables(db) : common_db_columns \subseteq db.cols[t]

\* A table whose first element carried an attribute was created and committed.
C9_Witness ==
    /\ Committed
    /\ Sent("CREATE")
    /\ \E t \in DynamicTables(db) \ DynamicTables(snap) : db.cols[t] # common_db_columns

\* C10: after any files that returned True, in whatever order, the dynamic tables
\* are the observed tables and each has the common columns plus the sanitized
\* names of all attributes observed for it.
C10_SchemaIsObserved ==
    /\ DynamicTables(db) = {p[1] : p \in observed}
    /\ \A t \in DynamicTables(db) :
          db.cols[t] = {p[2] : p \in {q \in observed : q[1] = t}}

C11_Quarantine ==
    Returned => moved_to = (IF outcome.ret THEN ARCHIVE_DIR ELSE ERROR_DIR)

\* C11, amended: as C11_Quarantine, except that with Error_FileNotFound there is
\* no file and nothing is moved.
C11_QuarantineOfExistingFiles ==
    Returned =>
        moved_to = (IF outcome.ret THEN ARCHIVE_DIR
                    ELSE IF outcome.status = "Error_FileNotFound" THEN "none"
                    ELSE ERROR_DIR)

\* A file failed inside its transaction, after an INSERT, and was quarantined.
C11_Witness ==
    /\ Returned
    /\ outcome.status = "Error_Staging_Tx_PG_V4"
    /\ Sent("INSERT")
    /\ moved_to = ERROR_DIR

AuditRowsOf(d, id) == {i \in DOMAIN d.audit : d.audit[i].id = id}

\* C12: a call of process_xml_file that has returned left exactly one row in
\* XMLFilesProcessed for its processed_file_id, one that has not returned yet
\* left none, and every earlier call left exactly one.
C12_OneAuditRow ==
    /\ Returned => Cardinality(AuditRowsOf(db, nfiles)) = 1
    /\ pc \notin {"idle", "done"} => AuditRowsOf(db, nfiles) = {}
    /\ \A id \in 1..(nfiles - 1) : Cardinality(AuditRowsOf(db, id)) = 1

\* The second call ended in the handler of unexpected errors after an INSERT; the
\* first one had ended with an early return.
C12_Witness ==
    /\ Returned
    /\ nfiles = 2
    /\ outcome.status = "Error_Unexpected_PG_V4"
    /\ Sent("INSERT")
    /\ db.audit[1].status \in {"Error_MD5", "Error_FileNotFound", "Error_Parsing_Empty"}

StagedRowOf(d, id) ==
    \E i \in AuditRowsOf(d, id) : d.audit[i].status = "Staged_Dynamic_PG_V4"

\* C13: True is returned and a Staged_Dynamic_PG_V4 row exists only if the
\* committed transaction holds all deletes, inserts and FKs of the file; in every
\* other path False is returned and no such row is written.
C13_SuccessOnlyAfterCommit ==
    /\ Committed =>
          /\ \A i \in DOMAIN elements_data :
                \E r \in db.rows : /\ r.run = nfiles
                                   /\ Val(r, "element_id") = elements_data[i].element_id
          /\ \A r \in db.rows : Val(r, "pcr_uuid_context") \in FilePcrs => r.run = nfiles
          /\ \A pair \in current_file_foreign_keys :
                FksBetween(db, Lower(pair[1]), Lower(pair[2])) # {}
    /\ (Returned /\ ~outcome.ret) => ~StagedRowOf(db, nfiles)
    /\ (pc # "idle" /\ StagedRowOf(db, nfiles)) => Committed

\* C14: the process ends with status 0 exactly when process_xml_file returned True.
C14_ExitCode ==
    [][(pc = "done" /\ pc' = "idle") => ((exit_code' = 0) <=> outcome.ret)]_vars

WrittenBy(d, run) == {r \in d.rows : r.run = run}

\* C15: after a commit, element_id is unique within each table and every
\* non-null parent_element_id the file wrote is the element_id of a row the file
\* wrote.
C15_RowIdentityAndParents ==
    Committed =>
        /\ \A r1, r2 \in db.rows :
              (r1.tbl = r2.tbl /\ Val(r1, "element_id") = Val(r2, "element_id")) => r1 = r2
        /\ \A r \in WrittenBy(db, nfiles) :
              Val(r, "parent_element_id") # Null =>
                  \E q \in WrittenBy(db, nfiles) :
                      Val(q, "element_id") = Val(r, "parent_element_id")

SchemaOf(d) == [cols |-> [t \in DynamicTables(d) |-> d.cols[t]], fks |-> d.fks]

SchemaLeq(d, e) ==
    /\ DynamicTables(d) \subseteq DynamicTables(e)
    /\ \A t \in DynamicTables(d) : d.cols[t] \subseteq e.cols[t]

\* C17: no step shrinks the dynamic tables or the columns of the committed
\* database, and when a file has failed the committed schema is the one the run
\* started with.
C17_AppendOnlySchema ==
    [][/\ SchemaLeq(db, db')
       /\ (pc' = "done" /\ ~outcome'.ret) => SchemaOf(db') = SchemaOf(snap')]_vars

\* A file failed after it had created a table, in a database that had dynamic
\* tables already.
C17_Witness ==
    /\ Returned
    /\ ~outcome.ret
    /\ Sent("CREATE")
    /\ DynamicTables(snap) # {}

FailureStatuses == {"Error_Staging_Tx_PG_V4", "Error_Unexpected_PG_V4"}

\* C19: a database error of a statement of the file gives Error_Staging_Tx_PG_V4;
\* with that status or with Error_Unexpected_PG_V4 the rollback comes first, the
\* audit row is committed, nothing of the file is, and False is returned.
C19_FailureHandling ==
    /\ (Returned /\ (Sent("INSERT_ERR") \/ Sent("FK_ERR") \/ Sent("FK_ERR_EXISTS")
                     \/ Sent("CREATE_ERR")))
          => outcome.status = "Error_Staging_Tx_PG_V4"
    /\ (Returned /\ outcome.status \in FailureStatuses) =>
          /\ issued[Len(issued)] = "ROLLBACK"
          /\ db.audit = Append(snap.audit, [id |-> nfiles, status |-> outcome.status])
          /\ Data(db) = Data(snap)
          /\ ~outcome.ret

\* The FK ALTER of a file failed after its rows had been inserted.
C19_Witness ==
    /\ Returned
    /\ Sent("FK_ERR")
    /\ Sent("INSERT")
    /\ outcome.status = "Error_Staging_Tx_PG_V4"

\* C20: every DELETE of a file precedes its first INSERT, CREATE TABLE and ADD
\* COLUMN, and when the file commits no rollback came after a DELETE.
C20_DeleteBeforeInsert ==
    \A i \in DOMAIN issued :
        issued[i] = "DELETE" =>
            /\ \A j \in 1..(i - 1) : issued[j] = "DELETE"
            /\ Committed => \A j \in (i + 1)..Len(issued) : issued[j] # "ROLLBACK"

\* C16: the table name and the column names that ensure_table_and_columns put
\* into CREATE TABLE and ADD COLUMN, and that INSERT uses, are at most 63
\* characters long.
C16_IdentifierLength ==
    ensured # NoTable =>
        /\ Len(Lower(ensured.table_name_raw)) <= IdentMax
        /\ \A c \in ensured.columns : Len(c) <= IdentMax

\* The rows and columns that ingesting the two files one after the other leaves:
\* each element's table has the common columns and the attribute columns of the
\* elements that went to it, and holds each element's row.
SequentialCols ==
    [t \in {WorkerTable(w) : w \in Workers} |->
        UNION {created_cols(WorkerElement(w).attributes)
                  : w \in {x \in Workers : WorkerTable(x) = t}}]

SequentialRows ==
    {[tbl  |-> WorkerTable(w),
      vals |-> LET data == insert_data(WorkerElement(w))
               IN [k \in {x \in DOMAIN data : data[x] # Null} |-> data[k]],
      run  |-> w] : w \in Workers}

\* C18: when the two workers of a parallel ingestion with disjoint PCR UUIDs
\* have ended, both have committed, and the dynamic tables, their columns and
\* the rows are those of ingesting the two files one after the other.
C18_ParallelDisjointPcrs ==
    (\A w \in Workers : workers[w].pc = "done") =>
        /\ \A w \in Workers : workers[w].outcome.ret
        /\ [t \in DynamicTables(db) |-> db.cols[t]] = SequentialCols
        /\ db.rows = SequentialRows

OverwrittenRows == {r \in snap.rows : Val(r, "pcr_uuid_context") \in FilePcrs}

OtherPcrRows(d) ==
    {r \in d.rows : Truthy(Val(r, "pcr_uuid_context")) /\ Val(r, "pcr_uuid_context") \notin FilePcrs}

AuditPart(d) == [audit |-> d.audit, cols |-> [a \in AuditTables |-> ColumnsOf(d, a)]]

EarlyStatuses == {"Error_MD5", "Error_FileNotFound", "Error_Parsing_Empty"}

\* C23: when process_xml_file has stopped with Error_MD5, Error_FileNotFound or
\* Error_Parsing_Empty, tables, columns, rows and foreign keys are those from
\* before the call, no statement was sent for the file's data, and the audit row
\* is the only change of the database.
C23_EarlyFailuresLeaveData ==
    (Returned /\ outcome.status \in EarlyStatuses) =>
        /\ Data(db) = Data(snap)
        /\ issued = <<>>
        /\ db.audit = Append(snap.audit, [id |-> nfiles, status |-> outcome.status])
        /\ ~outcome.ret

\* An early failure in a database that already holds dynamic tables and rows.
C23_Witness ==
    /\ Returned
    /\ outcome.status \in EarlyStatuses
    /\ snap.rows # {}
    /\ snap.fks # {}

\* C24: whenever process_xml_file has returned, and whenever no file is being
\* processed, _table_column_cache is empty.
C24_CacheInvalidation ==
    pc \in {"done", "idle"} => cache = <<>>

\* A file that filled the cache has committed, after a file that had failed in
\* its transaction.
C24_Witness ==
    /\ Committed
    /\ Sent("CREATE")
    /\ nfiles = 2
    /\ db.audit[1].status \in FailureStatuses

\* C25: while a file is being processed, every table name in _table_column_cache
\* has there the columns the table has in the connection's transaction (none
\* when the table does not exist).
C25_CacheCoherence ==
    pc \notin {"idle", "done"} =>
        \A table_name \in DOMAIN cache : cache[table_name] = ColumnsOf(tx, Lower(table_name))

IdealName(a) == "fk_" \o a.child \o "_" \o a.parent

\* The longest child part and the longest child and parent parts together.
MaxChildPart == 26

MaxBothParts == 52

\* C26: a pair whose ideal name has at most 63 characters gets the ideal name;
\* any other pair gets fk_<c>_<p>_<h>, with h the six hash digits of the ideal
\* name, c a non-empty prefix of the child name of at most 26 characters and p a
\* non-empty prefix of the parent name of at most 52 - Len(c) characters, all of
\* it within 63 characters.
C26_LongFkNames ==
    \A a \in planned :
        IF Len(IdealName(a)) <= IdentMax THEN a.name = IdealName(a)
        ELSE \E lc \in 1..MaxChildPart :
                LET lp == Len(a.name) - Len("fk_") - lc - 2 - HashLen
                IN /\ lc <= Len(a.child)
                   /\ lp >= 1
                   /\ lp <= Len(a.parent)
                   /\ lp <= MaxBothParts - lc
                   /\ a.name = "fk_" \o Prefix(a.child, lc) \o "_" \o Prefix(a.parent, lp)
                                 \o "_" \o Md5Hex6(IdealName(a))
                   /\ Len(a.name) <= IdentMax

\* The planner named a pair with a short child and a long parent: the child is
\* kept whole, the parent is cut to 26 characters, the name is shorter than 63.
C26_Witness ==
    \E a \in planned :
        /\ Len(IdealName(a)) > IdentMax
        /\ Len(a.child) < MaxChildPart
        /\ Len(a.name) = Len("fk_") + Len(a.child) + MaxChildPart + 2 + HashLen
        /\ Len(a.name) < IdentMax

\* The value of the last attribute, in iteration order, whose name sanitizes to
\* column.
RECURSIVE LastValue(_, _, _)
LastValue(attributes, column, i) ==
    IF i = 0 THEN Null
    ELSE IF Lower(sanitize_xml_name(attributes[i][1])) = column THEN attributes[i][2]
    ELSE LastValue(attributes, column, i - 1)

\* C27: an element whose attributes sanitize to the same identifier raises no
\* error; its table has the column, and once the row is inserted it holds, in
\* that column, the value of the last of these attributes.
C27_AttributeCollision ==
    /\ pc # "db_error"
    /\ \A stmt \in Range(issued) : stmt \in {"DELETE", "CREATE", "ALTER", "INSERT", "COMMIT"}
    /\ Sent("INSERT") =>
          LET element == elements_data[1]
              columns == AttrColumns(element.attributes)
          IN /\ columns \subseteq ColumnsOf(tx, "t")
             /\ \E r \in RowsIn(tx, "t") :
                   /\ Val(r, "element_id") = element.element_id
                   /\ \A c \in columns :
                         Val(r, c) = LastValue(element.attributes, c, Len(element.attributes))

\* A committed element with three attributes of which the first and the last
\* sanitize to the same identifier, in a table that existed before (ADD COLUMN).
C27_Witness ==
    /\ Committed
    /\ Sent("ALTER")
    /\ LET a == elements_data[1].attributes
       IN /\ Len(a) = 3
          /\ Lower(sanitize_xml_name(a[1][1])) = Lower(sanitize_xml_name(a[3][1]))
          /\ Lower(sanitize_xml_name(a[1][1])) # Lower(sanitize_xml_name(a[2][1]))

\* C28: an element whose table suggestion sanitizes to the empty string is
\* rejected by ensure_table_and_columns without a statement being issued and
\* without a change of the transaction, and the file fails: it is rolled back,
\* its audit status is Error_Staging_Tx_PG_V4, and the committed data are those
\* of before the file, rows of earlier elements included.
EmptyNamed == pc = "ensure" /\ elements_data[idx].table_suggestion \in EmptyNames

C28_EmptyTableName ==
    /\ [][EmptyNamed => /\ pc' = "db_error"
                        /\ issued' = issued
                        /\ tx' = tx
                        /\ ensured' = NoTable]_vars
    /\ [](pc = "done" => /\ outcome = [status |-> "Error_Staging_Tx_PG_V4", ret |-> FALSE]
                         /\ Sent("ROLLBACK")
                         /\ Data(db) = Data(snap)
                         /\ WrittenBy(db, nfiles) = {}
                         /\ db.audit[Len(db.audit)] =
                              [id |-> nfiles, status |-> "Error_Staging_Tx_PG_V4"])

\* The second element has the empty name and the row of the first was inserted.
C28_Witness ==
    /\ pc = "done"
    /\ idx = 2
    /\ elements_data[idx].table_suggestion = "  "
    /\ ensured = NoTable
    /\ Sent("INSERT")
    /\ WrittenBy(db, nfiles) = {}
    /\ outcome.status = "Error_Staging_Tx_PG_V4"

\* C29: no step replaces or removes a file that is in the error directory, so
\* each quarantined file gets a name no file there has, whatever the base names
\* and the seconds of the failures; the archive directory holds only base
\* names, a file archived under a name already there replacing the older one.
C29_QuarantineNeverOverwrites ==
    [][/\ \A n \in DOMAIN fs.error_dir :
             n \in DOMAIN fs'.error_dir /\ fs'.error_dir[n] = fs.error_dir[n]
       /\ DOMAIN fs'.archive_dir \subseteq BaseNames]_vars

\* C30: add_initial_schema_version inserts a row exactly when SchemaVersions is
\* empty; once database_setup.py has run, however often, SchemaVersions holds
\* exactly one row of the ingestion logic version and main's lookup finds it.
SeedingStep == Len(issued') > Len(issued) /\ issued'[Len(issued')] \in {"COUNT", "COMMIT"}

RowsOfVersion(d, version_number) ==
    {r \in SchemaVersions(d) : Val(r, "versionnumber") = version_number}

C30_Seeding ==
    /\ [][SeedingStep => ((SchemaVersions(db) = {}) <=> (SchemaVersions(db') # SchemaVersions(db)))]_vars
    /\ [](Sent("CREATE_AUDIT") =>
            /\ Cardinality(RowsOfVersion(db, INGESTION_LOGIC_VERSION_NUMBER)) = 1
            /\ get_ingestion_logic_schema_id(db, INGESTION_LOGIC_VERSION_NUMBER) # Null)

\* C31: a call of create_schema_if_not_exists with the name public issues
\* nothing and succeeds; with another name that matches [A-Za-z_][A-Za-z0-9_]*
\* it issues CREATE SCHEMA IF NOT EXISTS and succeeds, changing nothing when the
\* schema exists; with a name that does not match it fails and issues nothing.
C31_SchemaBootstrap ==
    [][LET schema_name == outcome'.schema_name
       IN /\ schema_name = "public" => outcome'.ret /\ issued' = issued /\ db' = db
          /\ schema_name # "public" /\ MatchesSchemaName(schema_name) =>
                /\ outcome'.ret
                /\ issued' = issued \o <<"CREATE SCHEMA IF NOT EXISTS", "COMMIT">>
                /\ schema_name \in db'.schemas
                /\ schema_name \in db.schemas => db' = db
          /\ ~MatchesSchemaName(schema_name) =>
                ~outcome'.ret /\ issued' = issued /\ db' = db]_vars

\* C32: every row a file has written holds, in the five common columns, the
\* element_id, parent_element_id, pcr_uuid_context, element_tag and
\* text_content of one of the file's elements, whatever the element's
\* attributes are called; its pcr_uuid_context is NULL or one of the PCR UUIDs
\* deleted for the file.
C32_CommonValuesKept ==
    \A r \in WrittenBy(tx, nfiles) :
        /\ \E i \in DOMAIN elements_data :
              LET element == elements_data[i]
              IN /\ Val(r, "element_id") = element.element_id
                 /\ Val(r, "parent_element_id") = element.parent_element_id
                 /\ Val(r, "pcr_uuid_context") = element.pcr_uuid_context
                 /\ Val(r, "original_tag_name") = element.element_tag
                 /\ Val(r, "text_content") = element.text_content
        /\ Val(r, "pcr_uuid_context") \in {Null} \cup unique_pcr_uuids_in_file(elements_data)

\* C33: a file with unique element_ids in which every child names a parent of
\* the same file and that parent's table, ingested into a database without
\* dynamic tables, ends committed, also when the elements of one table have
\* parents in two tables.
WellFormed ==
    \A i \in DOMAIN elements_data :
        LET element == elements_data[i]
        IN /\ \A j \in DOMAIN elements_data :
                 elements_data[j].element_id = element.element_id => j = i
           /\ element.parent_element_id # Null =>
                 \E j \in DOMAIN elements_data :
                    /\ elements_data[j].element_id = element.parent_element_id
                    /\ elements_data[j].table_suggestion = element.parent_table_suggestion

C33_WellFormedFilesCommit ==
    (pc = "done" /\ WellFormed /\ DynamicTables(snap) = {}) =>
        outcome = [status |-> "Staged_Dynamic_PG_V4", ret |-> TRUE]

NullRows(d) == {r \in d.rows : ~Truthy(Val(r, "pcr_uuid_context"))}

NullElements == {i \in DOMAIN elements_data : ~Truthy(elements_data[i].pcr_uuid_context)}

\* The run was given the file of the run before it, which left one row for each
\* element without a PCR, and has committed.
SecondIngest ==
    /\ Committed
    /\ again = file
    /\ NullElements # {}
    /\ Cardinality(NullRows(snap) \cap WrittenBy(snap, nfiles - 1)) = Cardinality(NullElements)

\* Elements without a PCR add nothing to the delete set,
\* delete_existing_pcr_data with an empty uuid issues nothing, and a DELETE for
\* a PCR UUID removes a row without a PCR only as the child of a removed row.
NoPcrNoDelete ==
    /\ FilePcrs \cap {Null, ""} = {}
    /\ \A u \in {Null, ""} : delete_existing_pcr_data(Conn, u) = Conn
    /\ \A u \in FilePcrs : \A t \in DynamicTables(tx) :
          \A r \in NullRows(tx) \ PgDelete(tx, t, u).rows :
              /\ Val(r, "parent_element_id") # Null
              /\ r \in CascadeClosure(tx, PcrRows(tx, u) \cap RowsIn(tx, t))

C35_FkNamesDiffer ==
    \A x, y \in planned :
        (x.child = y.child /\ x.parent # y.parent) =>
            /\ x.name # y.name
            /\ ~existing_fk([tx EXCEPT !.fks = {[child  |-> Lower(x.child),
                                                 parent |-> Lower(x.parent),
                                                 name   |-> x.name]}],
                            Lower(y.child), y.name)

\* C36: on a schema the ingester produced, upgrade renames text_content to
\* <table_name>_value in every dynamic table and in no audit table, and
\* downgrade after upgrade gives every table the columns it had before upgrade.
C36_MigrationRoundTrip ==
    /\ outcome.status = "upgrade" =>
          /\ outcome.ret
          /\ \A t \in TablesOf(snap) \ AuditTables :
                db.cols[t] = (snap.cols[t] \ {"text_content"}) \cup {PgIdent(t \o "_value")}
          /\ \A t \in AuditTables : db.cols[t] = snap.cols[t]
    /\ outcome.status = "downgrade" =>
          /\ outcome.ret
          /\ db.cols = snap.cols

====
